---- MODULE Spec2Model ----
(***************************************************************************)
(* Weighted finite-state transducers: the vector FST, the depth-first      *)
(* visitor with the Tarjan SCC / connectivity visitors, connect, the       *)
(* arc-map driver with the InvertWeightMapper, relabel_pairs, union, and   *)
(* plus of the string weights.  State ids are 0-based as in the source;    *)
(* the state with id s is fst.states[s + 1].                               *)
(***************************************************************************)
EXTENDS Integers, Sequences, FiniteSets, Bags, TLC

VARIABLES
    fst,    \* the FST the operation works on (VectorFst: states, start_state)
    prev,   \* the FST as it was when the last operation was called
    pc,     \* position of the run
    dfs,    \* the DFS engine's state (colours, state stack, current root)
    vis,    \* the visitor's fields
    mapper, \* the arc mapper handed to arc_map
    res,    \* result of the last fallible call: "none", "ok" or "err"
    fst_2,  \* the second operand of union
    pairs,  \* the label pairs handed to relabel_pairs: ipairs and opairs
    wop,    \* the operands of a semiring operation: self, rhs, and self before
    it_path \* the paths iterator: its queue, and what its caller has received

vars == <<fst, prev, pc, dfs, vis, mapper, res, fst_2, pairs, wop, it_path>>

\* The variables of the operations with further operands
operands == <<fst_2, pairs, wop, it_path>>

----------------------------------------------------------------------------
(* Bounds of the model *)

MaxStates == 3

MaxArcs == 4

\* Arcs of the FSTs given to arc_map
MaxMapArcs == 2

----------------------------------------------------------------------------
(* Constants of the program *)

EPS_LABEL == 0

NO_STATE_ID == -1

\* Option::None of final_weight and of start_state
NoWeight == -1

NoState == -1

\* Semiring one() and zero() of the integer weights the FSTs carry
One == 1

Zero == 0

\* Semiring times of the integer weights
Times(a, b) == a * b

----------------------------------------------------------------------------
(* VectorFst *)

Arc(il, ol, w, t) == [ilabel |-> il, olabel |-> ol, weight |-> w, nextstate |-> t]

VectorFstState(fw, as) == [final_weight |-> fw, arcs |-> as]

VectorFst(ss, st) == [states |-> ss, start_state |-> st]

NumStates(f) == Len(f.states)

StateIds(f) == 0 .. (NumStates(f) - 1)

ArcsOf(f, s) == f.states[s + 1].arcs

FinalWeight(f, s) == f.states[s + 1].final_weight

IsFinal(f, s) == FinalWeight(f, s) # NoWeight

NumArcs(f, s) == Len(ArcsOf(f, s))

RECURSIVE SumArcs(_, _)
SumArcs(ss, k) == IF k = 0 THEN 0 ELSE Len(ss[k].arcs) + SumArcs(ss, k - 1)

TotalArcs(f) == SumArcs(f.states, NumStates(f))

\* MutableFst operations
NewFst == VectorFst(<<>>, NoState)

add_state(f) == [f EXCEPT !.states = Append(f.states, VectorFstState(NoWeight, <<>>))]

set_start(f, s) == [f EXCEPT !.start_state = s]

set_final(f, s, w) == [f EXCEPT !.states[s + 1].final_weight = w]

delete_final_weight(f, s) == [f EXCEPT !.states[s + 1].final_weight = NoWeight]

add_arc(f, s, arc) == [f EXCEPT !.states[s + 1].arcs = Append(f.states[s + 1].arcs, arc)]

\* Every nextstate and the start state, if set, are existing states.
WellFormed(f) ==
    /\ f.start_state = NoState \/ f.start_state \in StateIds(f)
    /\ \A s \in StateIds(f) : \A i \in 1 .. NumArcs(f, s) :
           ArcsOf(f, s)[i].nextstate \in StateIds(f)

----------------------------------------------------------------------------
(* MutableFst::del_states: the kept states are compacted in id order, arcs *)
(* into deleted states are dropped, the others renumbered; a deleted start *)
(* state becomes none.                                                     *)

NewStateId(dstates, s) == Cardinality({t \in 0 .. (s - 1) : t \notin dstates})

RECURSIVE KeepArcs(_, _, _)
KeepArcs(as, dstates, i) ==
    IF i > Len(as) THEN <<>>
    ELSE IF as[i].nextstate \in dstates THEN KeepArcs(as, dstates, i + 1)
         ELSE <<[as[i] EXCEPT !.nextstate = NewStateId(dstates, as[i].nextstate)]>>
                  \o KeepArcs(as, dstates, i + 1)

RECURSIVE KeepStates(_, _, _)
KeepStates(ss, dstates, s) ==
    IF s >= Len(ss) THEN <<>>
    ELSE IF s \in dstates THEN KeepStates(ss, dstates, s + 1)
         ELSE <<[ss[s + 1] EXCEPT !.arcs = KeepArcs(ss[s + 1].arcs, dstates, 1)]>>
                  \o KeepStates(ss, dstates, s + 1)

DelStates(f, dstates) ==
    VectorFst(KeepStates(f.states, dstates, 0),
              IF f.start_state = NoState \/ f.start_state \in dstates
              THEN NoState
              ELSE NewStateId(dstates, f.start_state))

----------------------------------------------------------------------------
(* ConnectVisitor (connect.rs) *)

ConnectVisitorNew(f) ==
    [kind      |-> "connect",
     access    |-> [s \in StateIds(f) |-> FALSE],
     coaccess  |-> [s \in StateIds(f) |-> FALSE],
     start     |-> IF f.start_state = NoState THEN NO_STATE_ID ELSE f.start_state,
     nstates   |-> 0,
     dfnumber  |-> [s \in StateIds(f) |-> -1],
     lowlink   |-> [s \in StateIds(f) |-> -1],
     onstack   |-> [s \in StateIds(f) |-> FALSE],
     scc_stack |-> <<>>,
     panicked  |-> FALSE]

\* ConnectInitState marking every discovered state accessible.
ConnectInitStateAllAccess(v, s, root) ==
    [v EXCEPT !.scc_stack = Append(v.scc_stack, s),
              !.dfnumber[s] = v.nstates,
              !.lowlink[s] = v.nstates,
              !.onstack[s] = TRUE,
              !.access[s] = TRUE,
              !.nstates = v.nstates + 1]

ConnectInitState(v, s, root) ==
    [v EXCEPT !.scc_stack = Append(v.scc_stack, s),
              !.dfnumber[s] = v.nstates,
              !.lowlink[s] = v.nstates,
              !.onstack[s] = TRUE,
              !.access[s] = (root = v.start),
              !.nstates = v.nstates + 1]

ConnectBackArc(v, s, t) ==
    [v EXCEPT !.lowlink[s] = IF v.dfnumber[t] < v.lowlink[s]
                             THEN v.dfnumber[t] ELSE v.lowlink[s],
              !.coaccess[s] = IF v.coaccess[t] THEN TRUE ELSE v.coaccess[s]]

\* ConnectForwardOrCrossArc without the test that t is on the stack.
ConnectForwardOrCrossArcNoGuard(v, s, t) ==
    [v EXCEPT !.lowlink[s] = IF /\ v.dfnumber[t] < v.dfnumber[s]
                                /\ v.dfnumber[t] < v.lowlink[s]
                             THEN v.dfnumber[t] ELSE v.lowlink[s],
              !.coaccess[s] = IF v.coaccess[t] THEN TRUE ELSE v.coaccess[s]]

\* ConnectForwardOrCrossArc without the coaccess propagation.
ConnectForwardOrCrossArcNoCoaccess(v, s, t) ==
    [v EXCEPT !.lowlink[s] = IF /\ v.dfnumber[t] < v.dfnumber[s]
                                /\ v.onstack[t]
                                /\ v.dfnumber[t] < v.lowlink[s]
                             THEN v.dfnumber[t] ELSE v.lowlink[s]]

ConnectForwardOrCrossArc(v, s, t) ==
    [v EXCEPT !.lowlink[s] = IF /\ v.dfnumber[t] < v.dfnumber[s]
                                /\ v.onstack[t]
                                /\ v.dfnumber[t] < v.lowlink[s]
                             THEN v.dfnumber[t] ELSE v.lowlink[s],
              !.coaccess[s] = IF v.coaccess[t] THEN TRUE ELSE v.coaccess[s]]

\* First loop of finish_state: walk scc_stack from the top down to s and OR
\* the coaccess bits.  "none" when i would drop below 0 (the index panics).
RECURSIVE ScanSccStack(_, _, _, _, _)
ScanSccStack(stack, coaccess, s, i, acc) ==
    IF i = 0 THEN "none"
    ELSE LET t == stack[i]
             a == acc \/ coaccess[t]
         IN IF s = t THEN (IF a THEN "true" ELSE "false")
            ELSE ScanSccStack(stack, coaccess, s, i - 1, a)

\* Second loop of ConnectVisitor::finish_state: pop down to and including s.
RECURSIVE ConnectPopScc(_, _, _)
ConnectPopScc(v, s, scc_coaccess) ==
    LET t  == v.scc_stack[Len(v.scc_stack)]
        v1 == [v EXCEPT !.coaccess[t] = IF scc_coaccess THEN TRUE ELSE v.coaccess[t],
                        !.onstack[t] = FALSE,
                        !.scc_stack = SubSeq(v.scc_stack, 1, Len(v.scc_stack) - 1)]
    IN IF s = t THEN v1 ELSE ConnectPopScc(v1, s, scc_coaccess)

\* ConnectFinishParent marking the parent coaccessible whatever the child is.
ConnectFinishParentAlways(v, s, parent) ==
    IF parent = NoState THEN v
    ELSE [v EXCEPT !.coaccess[parent] = TRUE,
                   !.lowlink[parent] = IF v.lowlink[s] < v.lowlink[parent]
                                       THEN v.lowlink[s] ELSE v.lowlink[parent]]

ConnectFinishParent(v, s, parent) ==
    IF parent = NoState THEN v
    ELSE [v EXCEPT !.coaccess[parent] = IF v.coaccess[s] THEN TRUE ELSE v.coaccess[parent],
                   !.lowlink[parent] = IF v.lowlink[s] < v.lowlink[parent]
                                       THEN v.lowlink[s] ELSE v.lowlink[parent]]

ConnectFinishState(f, v, s, parent) ==
    LET v1 == IF IsFinal(f, s) THEN [v EXCEPT !.coaccess[s] = TRUE] ELSE v
    IN IF v1.dfnumber[s] = v1.lowlink[s]
       THEN LET c == ScanSccStack(v1.scc_stack, v1.coaccess, s, Len(v1.scc_stack), FALSE)
            IN IF c = "none" THEN [v1 EXCEPT !.panicked = TRUE]
               ELSE ConnectFinishParent(ConnectPopScc(v1, s, c = "true"), s, parent)
       ELSE ConnectFinishParent(v1, s, parent)

ConnectFinishVisit(v) == v

----------------------------------------------------------------------------
(* SccVisitor (scc_visitors.rs).  scc and access are Option<Vec>: scc_some *)
(* and access_some say whether the vector is there.                        *)

SccVisitorNew(f, compute_scc, compute_acess) ==
    [kind        |-> "scc",
     scc_some    |-> compute_scc,
     scc         |-> [s \in StateIds(f) |-> -1],
     access_some |-> compute_acess,
     access      |-> [s \in StateIds(f) |-> FALSE],
     coaccess    |-> [s \in StateIds(f) |-> FALSE],
     start       |-> IF f.start_state = NoState THEN NO_STATE_ID ELSE f.start_state,
     nstates     |-> 0,
     dfnumber    |-> [s \in StateIds(f) |-> -1],
     lowlink     |-> [s \in StateIds(f) |-> -1],
     onstack     |-> [s \in StateIds(f) |-> FALSE],
     scc_stack   |-> <<>>,
     nscc        |-> 0,
     panicked    |-> FALSE]

SccInitState(v, s, root) ==
    [v EXCEPT !.scc_stack = Append(v.scc_stack, s),
              !.dfnumber[s] = v.nstates,
              !.lowlink[s] = v.nstates,
              !.onstack[s] = TRUE,
              !.access[s] = IF v.access_some THEN (root = v.start) ELSE v.access[s],
              !.nstates = v.nstates + 1]

SccBackArc(v, s, t) ==
    [v EXCEPT !.lowlink[s] = IF v.dfnumber[t] < v.lowlink[s]
                             THEN v.dfnumber[t] ELSE v.lowlink[s],
              !.coaccess[s] = IF v.coaccess[t] THEN TRUE ELSE v.coaccess[s]]

\* SccForwardOrCrossArc without the onstack guard.
SccForwardOrCrossArcNoGuard(v, s, t) ==
    [v EXCEPT !.lowlink[s] = IF /\ v.dfnumber[t] < v.dfnumber[s]
                                /\ v.dfnumber[t] < v.lowlink[s]
                             THEN v.dfnumber[t] ELSE v.lowlink[s],
              !.coaccess[s] = IF v.coaccess[t] THEN TRUE ELSE v.coaccess[s]]

SccForwardOrCrossArc(v, s, t) ==
    [v EXCEPT !.lowlink[s] = IF /\ v.dfnumber[t] < v.dfnumber[s]
                                /\ v.onstack[t]
                                /\ v.dfnumber[t] < v.lowlink[s]
                             THEN v.dfnumber[t] ELSE v.lowlink[s],
              !.coaccess[s] = IF v.coaccess[t] THEN TRUE ELSE v.coaccess[s]]

\* SccPopScc that does not hand the SCC's coaccess to the popped states.
RECURSIVE SccPopSccNoCoaccess(_, _, _)
SccPopSccNoCoaccess(v, s, scc_coaccess) ==
    LET t  == v.scc_stack[Len(v.scc_stack)]
        v1 == [v EXCEPT !.scc[t] = IF v.scc_some THEN v.nscc ELSE v.scc[t],
                        !.onstack[t] = FALSE,
                        !.scc_stack = SubSeq(v.scc_stack, 1, Len(v.scc_stack) - 1)]
    IN IF s = t THEN v1 ELSE SccPopSccNoCoaccess(v1, s, scc_coaccess)

\* Second loop of SccVisitor::finish_state: pop down to and including s,
\* giving every popped state the SCC id nscc.
RECURSIVE SccPopScc(_, _, _)
SccPopScc(v, s, scc_coaccess) ==
    LET t  == v.scc_stack[Len(v.scc_stack)]
        v1 == [v EXCEPT !.scc[t] = IF v.scc_some THEN v.nscc ELSE v.scc[t],
                        !.coaccess[t] = IF scc_coaccess THEN TRUE ELSE v.coaccess[t],
                        !.onstack[t] = FALSE,
                        !.scc_stack = SubSeq(v.scc_stack, 1, Len(v.scc_stack) - 1)]
    IN IF s = t THEN v1 ELSE SccPopScc(v1, s, scc_coaccess)

SccFinishParent(v, s, parent) ==
    IF parent = NoState THEN v
    ELSE [v EXCEPT !.coaccess[parent] = IF v.coaccess[s] THEN TRUE ELSE v.coaccess[parent],
                   !.lowlink[parent] = IF v.lowlink[s] < v.lowlink[parent]
                                       THEN v.lowlink[s] ELSE v.lowlink[parent]]

SccFinishState(f, v, s, parent) ==
    LET v1 == IF IsFinal(f, s) THEN [v EXCEPT !.coaccess[s] = TRUE] ELSE v
    IN IF v1.dfnumber[s] = v1.lowlink[s]
       THEN LET c == ScanSccStack(v1.scc_stack, v1.coaccess, s, Len(v1.scc_stack), FALSE)
            IN IF c = "none" THEN [v1 EXCEPT !.panicked = TRUE]
               ELSE LET v2 == SccPopScc(v1, s, c = "true")
                    IN SccFinishParent([v2 EXCEPT !.nscc = v2.nscc + 1], s, parent)
       ELSE SccFinishParent(v1, s, parent)

\* SccFinishVisit that leaves the ids in the order they were given.
SccFinishVisitNoReverse(v) == v

\* SccFinishVisit reversing with nscc instead of nscc - 1.
SccFinishVisitOffByOne(v) ==
    IF v.scc_some
    THEN [v EXCEPT !.scc = [s \in DOMAIN v.scc |-> v.nscc - v.scc[s]]]
    ELSE v

SccFinishVisit(v) ==
    IF v.scc_some
    THEN [v EXCEPT !.scc = [s \in DOMAIN v.scc |-> v.nscc - 1 - v.scc[s]]]
    ELSE v

----------------------------------------------------------------------------
(* The Visitor trait: the engine calls the callbacks of the visitor it was *)
(* given, a ConnectVisitor (kind "connect") or an SccVisitor (kind "scc"). *)

VisitorInitState(v, s, root) ==
    IF v.kind = "connect" THEN ConnectInitState(v, s, root) ELSE SccInitState(v, s, root)

VisitorBackArc(v, s, t) ==
    IF v.kind = "connect" THEN ConnectBackArc(v, s, t) ELSE SccBackArc(v, s, t)

VisitorForwardOrCrossArc(v, s, t) ==
    IF v.kind = "connect" THEN ConnectForwardOrCrossArc(v, s, t)
    ELSE SccForwardOrCrossArc(v, s, t)

VisitorFinishState(f, v, s, parent) ==
    IF v.kind = "connect" THEN ConnectFinishState(f, v, s, parent)
    ELSE SccFinishState(f, v, s, parent)

VisitorFinishVisit(v) ==
    IF v.kind = "connect" THEN ConnectFinishVisit(v) ELSE SccFinishVisit(v)

----------------------------------------------------------------------------
(* dfs_visit: a depth-first traversal from the start state, then (unless   *)
(* access_only) from every state still undiscovered, in id order.          *)
(* Colours: "white" undiscovered, "grey" discovered, "black" finished.     *)
(* A stack entry is a state and the position of its arc iterator.          *)

DfsNew(f) ==
    [color |-> [s \in StateIds(f) |-> "white"],
     stack |-> <<>>,
     root  |-> NoState,
     done  |-> FALSE]

\* The engine's state for a visit with access_only = true
DfsNewAccessOnly(f) ==
    [color |-> [s \in StateIds(f) |-> "white"],
     stack |-> <<>>,
     root  |-> NoState,
     done  |-> FALSE,
     access_only |-> TRUE]

AccessOnly(d) == "access_only" \in DOMAIN d

WhiteStates(f, d) == {s \in StateIds(f) : d.color[s] = "white"}

\* The next DFS root: the start state first, then the lowest undiscovered id.
NextRoot(f, d) ==
    IF f.start_state # NoState /\ d.color[f.start_state] = "white"
    THEN f.start_state
    ELSE IF AccessOnly(d) THEN NoState
    ELSE IF WhiteStates(f, d) = {} THEN NoState
         ELSE CHOOSE s \in WhiteStates(f, d) : \A t \in WhiteStates(f, d) : s <= t

\* What the engine does next: "root" (open a new root), "end" (finish_visit),
\* "finish" (finish_state of the top state), or the class of the top state's
\* current arc: "tree", "back", "cross".
DfsNextKind(f, d) ==
    IF d.done THEN "done"
    ELSE IF d.stack = <<>>
    THEN (IF NextRoot(f, d) = NoState THEN "end" ELSE "root")
    ELSE LET top == d.stack[Len(d.stack)]
         IN IF top.i > NumArcs(f, top.s) THEN "finish"
            ELSE LET c == d.color[ArcsOf(f, top.s)[top.i].nextstate]
                 IN IF c = "white" THEN "tree"
                    ELSE IF c = "grey" THEN "back" ELSE "cross"

DfsOpenRoot(f, d, v) ==
    LET r == NextRoot(f, d)
    IN [d |-> [d EXCEPT !.color[r] = "grey",
                        !.stack = <<[s |-> r, i |-> 1]>>,
                        !.root = r],
        v |-> VisitorInitState(v, r, r)]

DfsTreeArc(f, d, v) ==
    LET top == d.stack[Len(d.stack)]
        t   == ArcsOf(f, top.s)[top.i].nextstate
    IN [d |-> [d EXCEPT !.color[t] = "grey",
                        !.stack = Append(d.stack, [s |-> t, i |-> 1])],
        v |-> VisitorInitState(v, t, d.root)]

DfsBackArc(f, d, v) ==
    LET n   == Len(d.stack)
        top == d.stack[n]
        t   == ArcsOf(f, top.s)[top.i].nextstate
    IN [d |-> [d EXCEPT !.stack[n].i = top.i + 1],
        v |-> VisitorBackArc(v, top.s, t)]

DfsForwardOrCrossArc(f, d, v) ==
    LET n   == Len(d.stack)
        top == d.stack[n]
        t   == ArcsOf(f, top.s)[top.i].nextstate
    IN [d |-> [d EXCEPT !.stack[n].i = top.i + 1],
        v |-> VisitorForwardOrCrossArc(v, top.s, t)]

DfsFinishState(f, d, v) ==
    LET n      == Len(d.stack)
        s      == d.stack[n].s
        parent == IF n > 1 THEN d.stack[n - 1].s ELSE NoState
        rest   == SubSeq(d.stack, 1, n - 1)
    IN [d |-> [d EXCEPT !.color[s] = "black",
                        !.stack = IF n > 1
                                  THEN [rest EXCEPT ![n - 1].i = rest[n - 1].i + 1]
                                  ELSE rest],
        v |-> VisitorFinishState(f, v, s, parent)]

DfsFinishVisit(f, d, v) ==
    [d |-> [d EXCEPT !.done = TRUE], v |-> VisitorFinishVisit(v)]

DfsStep(f, d, v) ==
    LET k == DfsNextKind(f, d)
    IN IF k = "root" THEN DfsOpenRoot(f, d, v)
       ELSE IF k = "tree" THEN DfsTreeArc(f, d, v)
       ELSE IF k = "back" THEN DfsBackArc(f, d, v)
       ELSE IF k = "cross" THEN DfsForwardOrCrossArc(f, d, v)
       ELSE IF k = "finish" THEN DfsFinishState(f, d, v)
       ELSE DfsFinishVisit(f, d, v)

\* The whole visit: steps until finish_visit has run (or the visitor panicked).
RECURSIVE DfsRun(_, _, _)
DfsRun(f, d, v) ==
    IF d.done \/ v.panicked THEN v
    ELSE LET n == DfsStep(f, d, v) IN DfsRun(f, n.d, n.v)

dfs_visit(f, v) == DfsRun(f, DfsNew(f), v)

----------------
(* connect *)

\* ConnectDstates looking at access alone.
ConnectDstatesAccessOnly(v) == {s \in DOMAIN v.access : ~v.access[s]}

ConnectDstates(v) == {s \in DOMAIN v.access : ~v.access[s] \/ ~v.coaccess[s]}

connect(f) ==
    LET visitor == dfs_visit(f, ConnectVisitorNew(f))
    IN DelStates(f, ConnectDstates(visitor))

----------------------------------------------------------------------------
(* String weights (string_weight.rs).  A StringWeightVariant is Infinity   *)
(* or Labels(v) for a sequence v of labels.                                *)

MaxLen == 3

MaxStringLabel == 2

Infinity == [variant |-> "Infinity", labels |-> <<>>]

Labels(v) == [variant |-> "Labels", labels |-> v]

StringZero == Infinity

StringOne == Labels(<<>>)

StringTypes == {"StringRestrict", "StringLeft", "StringRight"}

StringIsZero(w) == w = StringZero

Reverse(v) == [i \in 1 .. Len(v) |-> v[Len(v) + 1 - i]]

\* l1.iter().zip(l2.iter()).take_while(|(v1, v2)| v1 == v2).map(|(v1, _)| v1)
RECURSIVE TakeWhileEqual(_, _, _)
TakeWhileEqual(l1, l2, i) ==
    IF i > Len(l1) \/ i > Len(l2) THEN <<>>
    ELSE IF l1[i] # l2[i] THEN <<>>
    ELSE <<l1[i]>> \o TakeWhileEqual(l1, l2, i + 1)

\* PlusStringRestrict returning the common prefix instead of the error.
PlusStringRestrictPrefix(self, rhs) ==
    [ok |-> TRUE, value |-> Labels(TakeWhileEqual(self.labels, rhs.labels, 1))]

\* StringType::StringRestrict => if self != rhs { bail!(...) }
PlusStringRestrict(self, rhs) ==
    IF self # rhs THEN [ok |-> FALSE, value |-> self]
    ELSE [ok |-> TRUE, value |-> self]

\* StringType::StringLeft => ...
PlusStringLeft(self, rhs) ==
    [ok |-> TRUE, value |-> Labels(TakeWhileEqual(self.labels, rhs.labels, 1))]

\* PlusStringRight leaving the common suffix in the reversed order.
PlusStringRightNoRev(self, rhs) ==
    [ok |-> TRUE,
     value |-> Labels(TakeWhileEqual(Reverse(self.labels), Reverse(rhs.labels), 1))]

\* StringType::StringRight => ...
PlusStringRight(self, rhs) ==
    [ok |-> TRUE,
     value |-> Labels(Reverse(TakeWhileEqual(Reverse(self.labels), Reverse(rhs.labels), 1)))]

\* plus_assign: ok and the value of self afterwards
plus_assign(string_type, self, rhs) ==
    IF StringIsZero(self) THEN [ok |-> TRUE, value |-> rhs]
    ELSE IF StringIsZero(rhs) THEN [ok |-> TRUE, value |-> self]
    ELSE IF string_type = "StringRestrict" THEN PlusStringRestrict(self, rhs)
    ELSE IF string_type = "StringLeft" THEN PlusStringLeft(self, rhs)
    ELSE PlusStringRight(self, rhs)

\* times_assign leaving self alone when rhs is Infinity.
times_assignNoAbsorb(self, rhs) ==
    IF self.variant = "Labels" /\ rhs.variant = "Labels"
    THEN Labels(self.labels \o rhs.labels)
    ELSE self

\* times_assign: the value of self afterwards (it never fails)
times_assign(self, rhs) ==
    IF self.variant = "Labels"
    THEN IF rhs.variant = "Labels" THEN Labels(self.labels \o rhs.labels)
         ELSE Infinity
    ELSE self

DivideTypes == {"DivideLeft", "DivideRight", "DivideAny"}

\* l1.iter().skip(n)
Skip(l1, n) == SubSeq(l1, n + 1, Len(l1))

\* divide_left: res is "panic" where the code panics
divide_left(w1, w2) ==
    IF w1.variant = "Infinity" /\ w2.variant = "Infinity"
    THEN [res |-> "panic", value |-> w1]
    ELSE IF w1.variant = "Infinity" THEN [res |-> "ok", value |-> Infinity]
    ELSE IF w2.variant = "Infinity" THEN [res |-> "panic", value |-> w1]
    ELSE [res |-> "ok", value |-> Labels(Skip(w1.labels, Len(w2.labels)))]

\* divide_right removing the labels at the front, as divide_left does.
divide_rightSkipFront(w1, w2) == divide_left(w1, w2)

\* divide_right: res is "panic" where the code panics
divide_right(w1, w2) ==
    IF w1.variant = "Infinity" /\ w2.variant = "Infinity"
    THEN [res |-> "panic", value |-> w1]
    ELSE IF w1.variant = "Infinity" THEN [res |-> "ok", value |-> Infinity]
    ELSE IF w2.variant = "Infinity" THEN [res |-> "panic", value |-> w1]
    ELSE [res |-> "ok",
          value |-> Labels(Reverse(Skip(Reverse(w1.labels), Len(w2.labels))))]

\* impl WeaklyDivisibleSemiring for StringWeightLeft
DivideAssignLeft(self, rhs, divide_type) ==
    IF divide_type # "DivideLeft" THEN [res |-> "err", value |-> self]
    ELSE divide_left(self, rhs)

\* impl WeaklyDivisibleSemiring for StringWeightRight
DivideAssignRight(self, rhs, divide_type) ==
    IF divide_type # "DivideRight" THEN [res |-> "err", value |-> self]
    ELSE divide_right(self, rhs)

\* DivideAssignRestrict dividing on the left when the side is DivideAny.
DivideAssignRestrictAnyLeft(self, rhs, divide_type) ==
    IF divide_type = "DivideRight" THEN divide_right(self, rhs)
    ELSE divide_left(self, rhs)

\* impl WeaklyDivisibleSemiring for StringWeightRestrict
DivideAssignRestrict(self, rhs, divide_type) ==
    IF divide_type = "DivideLeft" THEN divide_left(self, rhs)
    ELSE IF divide_type = "DivideRight" THEN divide_right(self, rhs)
    ELSE [res |-> "err", value |-> self]

\* divide_assign: ok, err or panic, and the value of self afterwards
divide_assign(string_type, self, rhs, divide_type) ==
    IF string_type = "StringLeft" THEN DivideAssignLeft(self, rhs, divide_type)
    ELSE IF string_type = "StringRight" THEN DivideAssignRight(self, rhs, divide_type)
    ELSE DivideAssignRestrict(self, rhs, divide_type)

\* WeaklyDivisibleSemiring::divide: the quotient, self is not changed
divide(string_type, self, rhs, divide_type) ==
    divide_assign(string_type, self, rhs, divide_type)

----------------------------------------------------------------------------
(* String weights as the weights of an FST.  The weights of the FSTs are   *)
(* numbers, so a string weight is stored as its code: Zero for Infinity,   *)
(* One for the empty sequence, and the code of v followed by the label l   *)
(* is the code of v times StringBase plus l.                               *)

StringBase == MaxStringLabel + 1

RECURSIVE LabelsCode(_)
LabelsCode(v) ==
    IF v = <<>> THEN One
    ELSE LabelsCode(SubSeq(v, 1, Len(v) - 1)) * StringBase + v[Len(v)]

StringCode(w) == IF w.variant = "Infinity" THEN Zero ELSE LabelsCode(w.labels)

RECURSIVE CodeLabels(_)
CodeLabels(n) ==
    IF n = One THEN <<>> ELSE Append(CodeLabels(n \div StringBase), n % StringBase)

StringOfCode(n) == IF n = Zero THEN Infinity ELSE Labels(CodeLabels(n))

\* map_weight on a string weight stored as its code: ok and the code of the
\* weight afterwards
StringMapWeight(string_type, weight) ==
    LET q == divide(string_type, StringOne, StringOfCode(weight), "DivideAny")
    IN IF q.res = "ok" THEN [ok |-> TRUE, weight |-> StringCode(q.value)]
       ELSE [ok |-> FALSE, weight |-> weight]

\* InvertWeightMapper over one of the string semirings
StringInvertWeightMapper(string_type) ==
    [final_action |-> "MapNoSuperfinal", arc_op |-> "invert_string",
     final_op |-> "invert_string", arc_calls |-> 0, final_calls |-> 0,
     semiring |-> string_type]

----------------------------------------------------------------------------
(* Arc mappers.  A mapper is an object with a final action and the two     *)
(* mapping methods; it counts the calls it receives.  arc_op and final_op  *)
(* name what the methods do:                                               *)
(*   arc_op   "swap"   exchanges ilabel and olabel                         *)
(*            "fail2"  fails on an arc with ilabel 2, else doubles the     *)
(*                     weight                                              *)
(*   final_op "zero"   sets the weight to zero                             *)
(*            "label"  sets ilabel to 7 and doubles the weight             *)
(*            "label2" sets olabel to 7 when the weight is 2, else doubles *)
(*                     it                                                  *)
(*            "fail2"  fails when the weight is 2, else doubles it         *)
(* The InvertWeightMapper has the ops "invert": both methods reciprocate   *)
(* the weight.                                                             *)

FinalArc(il, ol, w) == [ilabel |-> il, olabel |-> ol, weight |-> w]

MapFinalActions == {"MapNoSuperfinal", "MapAllowSuperfinal", "MapRequireSuperfinal"}

ArcOps == {"swap", "fail2"}

FinalOps == {"zero", "label", "label2", "fail2"}

Mappers ==
    [final_action : MapFinalActions, arc_op : ArcOps, final_op : FinalOps,
     arc_calls : {0}, final_calls : {0}]

\* The tropical semiring over the integers, a semiring in which division is
\* the exact inverse of times: one is 0, times is +, divide is -.
TropicalOne == 0

TropicalDivide(a, b) == a - b

\* map_weight reciprocating the weights above one() only.
map_weightAboveOne(weight) ==
    IF weight > TropicalOne THEN TropicalDivide(TropicalOne, weight) ELSE weight

\* weight.set_value(W::one().divide(weight, DivideAny)?.take_value())
map_weight(weight) == TropicalDivide(TropicalOne, weight)

\* InvertWeightMapper (invert_weight_mapper.rs)
InvertWeightMapper ==
    [final_action |-> "MapNoSuperfinal", arc_op |-> "invert", final_op |-> "invert",
     arc_calls |-> 0, final_calls |-> 0]

\* ArcMapper::arc_map: ok and the arc as the method leaves it
MapperArcMap(m, arc) ==
    IF m.arc_op = "invert_string"
    THEN LET w == StringMapWeight(m.semiring, arc.weight)
         IN [ok |-> w.ok, arc |-> [arc EXCEPT !.weight = w.weight]]
    ELSE IF m.arc_op = "invert"
    THEN [ok |-> TRUE, arc |-> [arc EXCEPT !.weight = map_weight(arc.weight)]]
    ELSE IF m.arc_op = "fail2" /\ arc.ilabel = 2 THEN [ok |-> FALSE, arc |-> arc]
    ELSE IF m.arc_op = "swap"
    THEN [ok |-> TRUE, arc |-> [arc EXCEPT !.ilabel = arc.olabel, !.olabel = arc.ilabel]]
    ELSE [ok |-> TRUE, arc |-> [arc EXCEPT !.weight = Times(arc.weight, 2)]]

\* ArcMapper::final_arc_map: ok and the final arc as the method leaves it
MapperFinalArcMap(m, fa) ==
    IF m.final_op = "invert_string"
    THEN LET w == StringMapWeight(m.semiring, fa.weight)
         IN [ok |-> w.ok, final_arc |-> [fa EXCEPT !.weight = w.weight]]
    ELSE IF m.final_op = "invert"
    THEN [ok |-> TRUE, final_arc |-> [fa EXCEPT !.weight = map_weight(fa.weight)]]
    ELSE IF m.final_op = "fail2" /\ fa.weight = 2 THEN [ok |-> FALSE, final_arc |-> fa]
    ELSE IF m.final_op = "zero" THEN [ok |-> TRUE, final_arc |-> [fa EXCEPT !.weight = Zero]]
    ELSE IF m.final_op = "label"
    THEN [ok |-> TRUE,
          final_arc |-> [fa EXCEPT !.ilabel = 7, !.weight = Times(fa.weight, 2)]]
    ELSE IF m.final_op = "label2"
    THEN [ok |-> TRUE,
          final_arc |-> IF fa.weight = 2 THEN [fa EXCEPT !.olabel = 7]
                        ELSE [fa EXCEPT !.weight = Times(fa.weight, 2)]]
    ELSE [ok |-> TRUE, final_arc |-> [fa EXCEPT !.weight = Times(fa.weight, 2)]]

IsZero(w) == w = Zero

----------------------------------------------------------------------------
(* arc_map (arc_map.rs).  The run is a record: ok (no error so far), the   *)
(* FST, the mapper and the superfinal state (NoState when there is none).  *)

\* for arc in arcs_iter_unchecked_mut(state) { mapper.arc_map(arc)?; }
RECURSIVE ArcMapArcs(_, _, _)
ArcMapArcs(r, state, i) ==
    IF i > NumArcs(r.fst, state) THEN r
    ELSE LET m1 == [r.mapper EXCEPT !.arc_calls = r.mapper.arc_calls + 1]
             a  == MapperArcMap(r.mapper, ArcsOf(r.fst, state)[i])
         IN IF ~a.ok THEN [r EXCEPT !.ok = FALSE, !.mapper = m1]
            ELSE ArcMapArcs([r EXCEPT !.mapper = m1,
                                      !.fst.states[state + 1].arcs[i] = a.arc],
                            state, i + 1)

LabelsNotEps(fa) == fa.ilabel # EPS_LABEL \/ fa.olabel # EPS_LABEL

\* ArcMapNoSuperfinal storing the mapped weight before it looks at the labels.
ArcMapNoSuperfinalSetFirst(r, state, fa) ==
    [r EXCEPT !.ok = ~LabelsNotEps(fa),
              !.fst = set_final(r.fst, state, fa.weight)]

\* match final_action { MapNoSuperfinal => ... }
ArcMapNoSuperfinal(r, state, fa) ==
    IF LabelsNotEps(fa) THEN [r EXCEPT !.ok = FALSE]
    ELSE [r EXCEPT !.fst = set_final(r.fst, state, fa.weight)]

\* ArcMapAllowSuperfinal adding a superfinal state for every labelled final arc.
ArcMapAllowSuperfinalEach(r, state, fa) ==
    IF state = r.superfinal THEN r
    ELSE IF LabelsNotEps(fa)
    THEN LET r1 == [r EXCEPT !.superfinal = NumStates(r.fst),
                             !.fst = set_final(add_state(r.fst), NumStates(r.fst), One)]
         IN [r1 EXCEPT !.fst = delete_final_weight(
                 add_arc(r1.fst, state,
                         Arc(fa.ilabel, fa.olabel, fa.weight, r1.superfinal)),
                 state)]
    ELSE [r EXCEPT !.fst = set_final(r.fst, state, fa.weight)]

\* match final_action { MapAllowSuperfinal => ... }
ArcMapAllowSuperfinal(r, state, fa) ==
    IF state = r.superfinal THEN r
    ELSE IF LabelsNotEps(fa)
    THEN LET r1 == IF r.superfinal = NoState
                   THEN [r EXCEPT !.superfinal = NumStates(r.fst),
                                  !.fst = set_final(add_state(r.fst), NumStates(r.fst), One)]
                   ELSE r
         IN [r1 EXCEPT !.fst = delete_final_weight(
                 add_arc(r1.fst, state,
                         Arc(fa.ilabel, fa.olabel, fa.weight, r1.superfinal)),
                 state)]
    ELSE [r EXCEPT !.fst = set_final(r.fst, state, fa.weight)]

\* ArcMapRequireSuperfinal adding the arc also for (EPS_LABEL, EPS_LABEL, zero).
ArcMapRequireSuperfinalAlwaysArc(r, state, fa) ==
    IF state = r.superfinal THEN r
    ELSE [r EXCEPT !.fst = delete_final_weight(
              add_arc(r.fst, state, Arc(fa.ilabel, fa.olabel, fa.weight, r.superfinal)),
              state)]

\* match final_action { MapRequireSuperfinal => ... }
ArcMapRequireSuperfinal(r, state, fa) ==
    IF state = r.superfinal THEN r
    ELSE LET f1 == IF LabelsNotEps(fa) \/ ~IsZero(fa.weight)
                   THEN add_arc(r.fst, state,
                                Arc(fa.ilabel, fa.olabel, fa.weight, r.superfinal))
                   ELSE r.fst
         IN [r EXCEPT !.fst = delete_final_weight(f1, state)]

\* if let Some(w) = final_weight_unchecked_mut(state) { ... }
ArcMapFinal(r, state) ==
    IF ~IsFinal(r.fst, state) THEN r
    ELSE LET m1 == [r.mapper EXCEPT !.final_calls = r.mapper.final_calls + 1]
             fm == MapperFinalArcMap(r.mapper,
                                     FinalArc(EPS_LABEL, EPS_LABEL, FinalWeight(r.fst, state)))
             r1 == [r EXCEPT !.mapper = m1]
         IN IF ~fm.ok THEN [r1 EXCEPT !.ok = FALSE]
            ELSE IF r.mapper.final_action = "MapNoSuperfinal"
                 THEN ArcMapNoSuperfinal(r1, state, fm.final_arc)
            ELSE IF r.mapper.final_action = "MapAllowSuperfinal"
                 THEN ArcMapAllowSuperfinal(r1, state, fm.final_arc)
            ELSE ArcMapRequireSuperfinal(r1, state, fm.final_arc)

\* for state in states { ... }: the states 0 .. n - 1 collected before the loop
RECURSIVE ArcMapStates(_, _, _)
ArcMapStates(r, state, n) ==
    IF state >= n \/ ~r.ok THEN r
    ELSE LET r1 == ArcMapArcs(r, state, 1)
         IN IF ~r1.ok THEN r1
            ELSE ArcMapStates(ArcMapFinal(r1, state), state + 1, n)

\* ArcMapNoStart taking the FST without states for the empty FST.
ArcMapNoStates(f) == NumStates(f) = 0

\* if ifst.start().is_none() { return Ok(()); }
ArcMapNoStart(f) == f.start_state = NoState

\* ArcMapPrepare adding the superfinal state whatever the final action is.
ArcMapPrepareAlways(f, m) ==
    [ok |-> TRUE, fst |-> set_final(add_state(f), NumStates(f), One),
     mapper |-> m, superfinal |-> NumStates(f)]

\* ArcMapPrepare naming the superfinal state without adding it to the FST.
ArcMapPrepareNoState(f, m) ==
    IF m.final_action = "MapRequireSuperfinal"
    THEN [ok |-> TRUE, fst |-> f, mapper |-> m, superfinal |-> NumStates(f)]
    ELSE [ok |-> TRUE, fst |-> f, mapper |-> m, superfinal |-> NoState]

\* The superfinal state added before the loop under MapRequireSuperfinal
ArcMapPrepare(f, m) ==
    IF m.final_action = "MapRequireSuperfinal"
    THEN [ok |-> TRUE, fst |-> set_final(add_state(f), NumStates(f), One),
          mapper |-> m, superfinal |-> NumStates(f)]
    ELSE [ok |-> TRUE, fst |-> f, mapper |-> m, superfinal |-> NoState]

arc_map(f, m) ==
    IF ArcMapNoStart(f)
    THEN [ok |-> TRUE, fst |-> f, mapper |-> m, superfinal |-> NoState]
    ELSE LET r == ArcMapPrepare(f, m)
         IN ArcMapStates(r, 0, NumStates(r.fst))

----------------
(* Construction of the input FSTs *)

\* Labels and weights of the arcs and the final weight of the FSTs given to
\* connect: two kinds of arc, so that parallel arcs and paths can differ.
ConnectArcKinds == {<<1, 1, 1>>, <<2, 3, 2>>}

ConnectFinalWeights == {3}

NoDfs == DfsNew(NewFst)

NoVisitor == SccVisitorNew(NewFst, FALSE, FALSE)

NoMapper == [final_action |-> "none", arc_op |-> "none", final_op |-> "none",
             arc_calls |-> 0, final_calls |-> 0]

NoPairs == [ipairs |-> <<>>, opairs |-> <<>>]

NoWops == [self |-> NoWeight, rhs |-> NoWeight, before |-> NoWeight]

\* No paths iterator has been made yet
NoIterator == [queue |-> <<>>, caller |-> "none", calls |-> 0, pops |-> 0, yielded |-> <<>>]

Init ==
    /\ fst = NewFst
    /\ prev = NewFst
    /\ pc = "build"
    /\ dfs = NoDfs
    /\ vis = NoVisitor
    /\ mapper = NoMapper
    /\ res = "none"
    /\ fst_2 = NewFst
    /\ pairs = NoPairs
    /\ wop = NoWops
    /\ it_path = NoIterator

\* The input FSTs are built in a fixed order, so that every FST within the
\* bounds is built once: the states, then the arcs state by state, then the
\* final weights in id order, then the start state.
NoFinals(f, from) == \A u \in StateIds(f) : u >= from => ~IsFinal(f, u)

NoArcs(f, from) == \A u \in StateIds(f) : u >= from => NumArcs(f, u) = 0

BuildAddState ==
    /\ pc = "build"
    /\ NumStates(fst) < MaxStates
    /\ NoArcs(fst, 0) /\ NoFinals(fst, 0) /\ fst.start_state = NoState
    /\ fst' = add_state(fst)
    /\ prev' = fst'
    /\ UNCHANGED <<pc, dfs, vis, mapper, res>>
    /\ UNCHANGED operands

BuildAddArc(kinds, max) ==
    /\ pc = "build"
    /\ TotalArcs(fst) < max
    /\ NoFinals(fst, 0) /\ fst.start_state = NoState
    /\ \E s \in StateIds(fst), t \in StateIds(fst), k \in kinds :
          /\ NoArcs(fst, s + 1)
          /\ fst' = add_arc(fst, s, Arc(k[1], k[2], k[3], t))
    /\ prev' = fst'
    /\ UNCHANGED <<pc, dfs, vis, mapper, res>>
    /\ UNCHANGED operands

BuildSetFinal(weights) ==
    /\ pc = "build"
    /\ fst.start_state = NoState
    /\ \E s \in StateIds(fst), w \in weights :
          /\ NoFinals(fst, s)
          /\ fst' = set_final(fst, s, w)
    /\ prev' = fst'
    /\ UNCHANGED <<pc, dfs, vis, mapper, res>>
    /\ UNCHANGED operands

BuildSetStart ==
    /\ pc = "build"
    /\ fst.start_state = NoState
    /\ \E s \in StateIds(fst) : fst' = set_start(fst, s)
    /\ prev' = fst'
    /\ UNCHANGED <<pc, dfs, vis, mapper, res>>
    /\ UNCHANGED operands

----------------------------------------------------------------------------
(* Specification of connect: build an FST, connect it, connect the result. *)

ConnectSetFinal == BuildSetFinal(ConnectFinalWeights)

ConnectAddArc == BuildAddArc(ConnectArcKinds, MaxArcs)

Connect ==
    /\ pc \in {"build", "connected"}
    /\ prev' = fst
    /\ fst' = connect(fst)
    /\ pc' = IF pc = "build" THEN "connected" ELSE "connected2"
    /\ res' = "ok"
    /\ UNCHANGED <<dfs, vis, mapper>>
    /\ UNCHANGED operands

NextConnect ==
    \/ BuildAddState
    \/ BuildSetStart
    \/ ConnectSetFinal
    \/ ConnectAddArc
    \/ Connect

SpecConnect == Init /\ [][NextConnect]_vars

----------------------------------------------------------------------------
(* Reachability and paths, as the claims measure them *)

Successors(f, s) == {ArcsOf(f, s)[i].nextstate : i \in 1 .. NumArcs(f, s)}

RECURSIVE ReachFrom(_, _)
ReachFrom(f, S) ==
    LET N == S \cup UNION {Successors(f, s) : s \in S}
    IN IF N = S THEN S ELSE ReachFrom(f, N)

Accessible(f) == IF f.start_state = NoState THEN {} ELSE ReachFrom(f, {f.start_state})

Coaccessible(f) == {s \in StateIds(f) : \E t \in ReachFrom(f, {s}) : IsFinal(f, t)}

Useful(f) == Accessible(f) \cap Coaccessible(f)

OnCycle(f, s) == s \in ReachFrom(f, Successors(f, s))

AccessibleAcyclic(f) == \A s \in Accessible(f) : ~OnCycle(f, s)

AddLabel(labels, l) == IF l = EPS_LABEL THEN labels ELSE Append(labels, l)

\* The bag of <<ilabels, olabels, weight>> of the paths of at most d arcs from
\* state s to a final state, each extended from the prefix (il, ol, w);
\* PathsVia sums over the arcs i, i+1, ... of s.
RECURSIVE PathsFrom(_, _, _, _, _, _)
RECURSIVE PathsVia(_, _, _, _, _, _, _)
PathsFrom(f, s, il, ol, w, d) ==
    (IF IsFinal(f, s) THEN SetToBag({<<il, ol, Times(w, FinalWeight(f, s))>>})
     ELSE EmptyBag)
    (+) (IF d = 0 THEN EmptyBag ELSE PathsVia(f, s, 1, il, ol, w, d))

PathsVia(f, s, i, il, ol, w, d) ==
    IF i > NumArcs(f, s) THEN EmptyBag
    ELSE LET a == ArcsOf(f, s)[i]
         IN PathsFrom(f, a.nextstate, AddLabel(il, a.ilabel), AddLabel(ol, a.olabel),
                      Times(w, a.weight), d - 1)
            (+) PathsVia(f, s, i + 1, il, ol, w, d)

PathsOf(f) ==
    IF f.start_state = NoState THEN EmptyBag
    ELSE PathsFrom(f, f.start_state, <<>>, <<>>, One, NumStates(f))

----------------------------------------------------------------------------
(* Claims about connect *)

Connected == pc \in {"connected", "connected2"}

\* C1: after connect, every state left in the FST is reachable from the
\* start state and reaches a final state, both measured in the result.
C1_ConnectTrims == Connected => StateIds(fst) \subseteq Useful(fst)

\* A connect that deleted an accessible dead end and an inaccessible state
\* and kept a cycle.
C1_Witness ==
    /\ pc = "connected"
    /\ NumStates(fst) >= 1
    /\ \E s \in Accessible(prev) : s \notin Coaccessible(prev)
    /\ \E s \in Coaccessible(prev) : s \notin Accessible(prev)
    /\ \E s \in StateIds(fst) : OnCycle(fst, s)

\* C2: when the accessible part of the input is acyclic, the bag of
\* (input labels, output labels, weight) of its start-to-final paths is the
\* same before and after connect.
C2_ConnectKeepsPaths ==
    (Connected /\ AccessibleAcyclic(prev)) => PathsOf(fst) = PathsOf(prev)

\* An acyclic input with a path that occurs twice and another path, from
\* which connect deleted a state.
C2_Witness ==
    /\ pc = "connected"
    /\ AccessibleAcyclic(prev)
    /\ NumStates(fst) < NumStates(prev)
    /\ \E p \in BagToSet(PathsOf(prev)) : CopiesIn(p, PathsOf(prev)) >= 2
    /\ Cardinality(BagToSet(PathsOf(prev))) >= 2

\* C3: connect applied to the result of connect returns that result: same
\* states, start, arcs in the same order and final weights.
C3_ConnectIdempotent == pc = "connected2" => fst = prev

\* A second connect of a non-empty result that the first connect had to trim.
C3_Witness ==
    /\ pc = "connected2"
    /\ NumStates(fst) >= 2
    /\ TotalArcs(fst) >= 2
    /\ \E s \in StateIds(fst) : OnCycle(fst, s)

\* The surviving arcs of a state: those whose target is in U, in the original
\* order, the targets renumbered by their rank in U.
Rank(U, s) == Cardinality({t \in U : t < s})

SurvivingArcs(as, U) ==
    LET Stays(a) == a.nextstate \in U
        kept == SelectSeq(as, Stays)
    IN IF kept = <<>> THEN <<>>
       ELSE [i \in 1 .. Len(kept) |-> [kept[i] EXCEPT !.nextstate = Rank(U, kept[i].nextstate)]]

\* C4: connect deletes exactly the states that are not both accessible and
\* coaccessible; the survivors keep their order, final weights and their arcs
\* to survivors in the original order.  So an FST whose states are all on
\* successful paths is unchanged, and one without start or final state
\* loses every state.
C4_ConnectDeletesExactly ==
    Connected =>
        LET U == Useful(prev)
        IN /\ NumStates(fst) = Cardinality(U)
           /\ \A s \in U :
                 /\ FinalWeight(fst, Rank(U, s)) = FinalWeight(prev, s)
                 /\ ArcsOf(fst, Rank(U, s)) = SurvivingArcs(ArcsOf(prev, s), U)
           /\ fst.start_state = IF prev.start_state \in U
                                THEN Rank(U, prev.start_state) ELSE NoState
           /\ (U = StateIds(prev) /\ prev.start_state # NoState) => fst = prev
           /\ (prev.start_state = NoState \/ NoFinals(prev, 0)) => NumStates(fst) = 0

\* A connect that deleted a state in the middle, kept a state with two arcs
\* to survivors and dropped one of its arcs.
C4_Witness ==
    /\ pc = "connected"
    /\ \E s \in Useful(prev), d \in StateIds(prev) \ Useful(prev) :
          /\ d < s
          /\ Len(SurvivingArcs(ArcsOf(prev, s), Useful(prev))) >= 2
          /\ Len(SurvivingArcs(ArcsOf(prev, s), Useful(prev))) < NumArcs(prev, s)

----------------------------------------------------------------------------
(* Specification of the SCC visit: build an FST, then run dfs_visit with   *)
(* an SccVisitor one engine step at a time.                                *)

SccArcKinds == {<<1, 1, 1>>}

SccFinalWeights == {One}

SccSetFinal == BuildSetFinal(SccFinalWeights)

SccAddArc == BuildAddArc(SccArcKinds, MaxArcs)

\* SccVisitor::new and the entry of dfs_visit (init_visit does nothing)
SccVisitStart ==
    /\ pc = "build"
    /\ \E compute_acess \in BOOLEAN : vis' = SccVisitorNew(fst, TRUE, compute_acess)
    /\ dfs' = DfsNew(fst)
    /\ pc' = "visit"
    /\ UNCHANGED <<fst, prev, mapper, res>>
    /\ UNCHANGED operands

VisitStep(k, n) ==
    /\ pc = "visit"
    /\ ~vis.panicked
    /\ DfsNextKind(fst, dfs) = k
    /\ dfs' = n.d
    /\ vis' = n.v
    /\ UNCHANGED <<fst, prev, mapper, res>>
    /\ UNCHANGED operands

VisitOpenRoot == VisitStep("root", DfsOpenRoot(fst, dfs, vis)) /\ pc' = pc

VisitTreeArc == VisitStep("tree", DfsTreeArc(fst, dfs, vis)) /\ pc' = pc

VisitBackArc == VisitStep("back", DfsBackArc(fst, dfs, vis)) /\ pc' = pc

VisitForwardOrCrossArc ==
    VisitStep("cross", DfsForwardOrCrossArc(fst, dfs, vis)) /\ pc' = pc

VisitFinishState == VisitStep("finish", DfsFinishState(fst, dfs, vis)) /\ pc' = pc

VisitFinishVisit == VisitStep("end", DfsFinishVisit(fst, dfs, vis)) /\ pc' = "done"

NextScc ==
    \/ BuildAddState
    \/ BuildSetStart
    \/ SccSetFinal
    \/ SccAddArc
    \/ SccVisitStart
    \/ VisitOpenRoot
    \/ VisitTreeArc
    \/ VisitBackArc
    \/ VisitForwardOrCrossArc
    \/ VisitFinishState
    \/ VisitFinishVisit

SpecScc == Init /\ [][NextScc]_vars

----------------------------------------------------------------------------
(* Claims about the SCC visitor *)

MutuallyReachable(f, s, t) == t \in ReachFrom(f, {s}) /\ s \in ReachFrom(f, {t})

SccOf(f, s) == {t \in StateIds(f) : MutuallyReachable(f, s, t)}

NumSccs(f) == Cardinality({SccOf(f, s) : s \in StateIds(f)})

HasArc(f, s, t) == t \in Successors(f, s)

\* C5: after the full visit with compute_scc, every state has an SCC id in
\* [0, nscc), nscc is the number of strongly connected components, and two
\* states have the same id exactly when they are mutually reachable.
C5_SccPartition ==
    (pc = "done" /\ vis.scc_some) =>
        /\ \A s \in StateIds(fst) : vis.scc[s] \in 0 .. (vis.nscc - 1)
        /\ vis.nscc = NumSccs(fst)
        /\ \A s, t \in StateIds(fst) :
              (vis.scc[s] = vis.scc[t]) <=> MutuallyReachable(fst, s, t)

\* A finished visit of an FST with a component of two states or more, a
\* second component, and a state that is not accessible from the start.
C5_Witness ==
    /\ pc = "done"
    /\ vis.scc_some
    /\ vis.nscc >= 2
    /\ \E s, t \in StateIds(fst) : s # t /\ vis.scc[s] = vis.scc[t]
    /\ fst.start_state # NoState
    /\ \E s \in StateIds(fst) : s \notin Accessible(fst)

\* C6: after finish_visit, every arc between two different components goes
\* from the lower SCC id to the higher one.
C6_SccTopological ==
    (pc = "done" /\ vis.scc_some) =>
        \A s, t \in StateIds(fst) :
            (HasArc(fst, s, t) /\ ~MutuallyReachable(fst, s, t)) => vis.scc[s] < vis.scc[t]

\* A finished visit with a chain of three components, and one with an arc
\* from a state found from a later root into the start's tree.
C6_Witness ==
    /\ pc = "done"
    /\ vis.scc_some
    /\ fst.start_state # NoState
    /\ \E s, t \in StateIds(fst) :
          /\ HasArc(fst, s, t)
          /\ s \notin Accessible(fst)
          /\ t \in Accessible(fst)
          /\ vis.scc[s] < vis.scc[t]
    /\ \E s, t \in Accessible(fst) : HasArc(fst, s, t) /\ vis.scc[s] < vis.scc[t]

\* C7: after the full visit, coaccess[s] holds exactly when a final state is
\* reachable from s.
C7_CoaccessExact ==
    pc = "done" =>
        \A s \in StateIds(fst) : vis.coaccess[s] <=> (s \in Coaccessible(fst))

\* A finished visit of a cycle a -> t -> a, a -> s -> t from a root that is not
\* the start state: t was finished, still on the stack and not yet known to
\* be coaccessible when the arc s -> t was examined; only a is final.
C7_Witness ==
    /\ pc = "done"
    /\ dfs.root # vis.start
    /\ \E a, t, s \in StateIds(fst) :
          /\ vis.dfnumber[a] < vis.dfnumber[t]
          /\ vis.dfnumber[t] < vis.dfnumber[s]
          /\ Successors(fst, t) = {a}
          /\ HasArc(fst, s, t)
          /\ HasArc(fst, a, s)
          /\ \A u \in StateIds(fst) : IsFinal(fst, u) <=> u = a
          /\ vis.coaccess[s] /\ vis.coaccess[t]

----------------------------------------------------------------------------
(* Specification of arc_map: build an FST, then map it with some mapper.   *)

MapArcKinds == {<<1, 1, 1>>, <<2, 3, 2>>}

MapFinalWeights == {1, 2}

MapSetFinal == BuildSetFinal(MapFinalWeights)

MapAddArc == BuildAddArc(MapArcKinds, MaxMapArcs)

ArcMap ==
    /\ pc = "build"
    /\ \E m \in Mappers :
          LET r == arc_map(fst, m)
          IN /\ fst' = r.fst
             /\ mapper' = r.mapper
             /\ res' = IF r.ok THEN "ok" ELSE "err"
    /\ prev' = fst
    /\ pc' = "mapped"
    /\ UNCHANGED <<dfs, vis>>
    /\ UNCHANGED operands

NextArcMap ==
    \/ BuildAddState
    \/ BuildSetStart
    \/ MapSetFinal
    \/ MapAddArc
    \/ ArcMap

SpecArcMap == Init /\ [][NextArcMap]_vars

----------------------------------------------------------------------------
(* Claims about arc_map *)

Mapped == pc = "mapped"

FinalStates(f) == {s \in StateIds(f) : IsFinal(f, s)}

MappedArcs(m, as) ==
    IF as = <<>> THEN <<>> ELSE [i \in 1 .. Len(as) |-> MapperArcMap(m, as[i]).arc]

MappedFinal(m, w) == MapperFinalArcMap(m, FinalArc(EPS_LABEL, EPS_LABEL, w)).final_arc

\* C8: with a MapNoSuperfinal mapper, arc_map changes neither the number of
\* states nor the number of arcs of any state, whether it returns Ok or Err;
\* on Ok the final states and the start state are the same and every arc is
\* at its position: the image of the arc that was there (the arc itself
\* when the FST has no start state and nothing is mapped).
C8_NoSuperfinalKeepsShape ==
    (Mapped /\ mapper.final_action = "MapNoSuperfinal") =>
        /\ NumStates(fst) = NumStates(prev)
        /\ \A s \in StateIds(prev) : NumArcs(fst, s) = NumArcs(prev, s)
        /\ res = "ok" =>
              /\ FinalStates(fst) = FinalStates(prev)
              /\ fst.start_state = prev.start_state
              /\ \A s \in StateIds(prev) :
                    ArcsOf(fst, s) = IF prev.start_state = NoState
                                     THEN ArcsOf(prev, s)
                                     ELSE MappedArcs(mapper, ArcsOf(prev, s))

\* A successful MapNoSuperfinal run over a state with two different arcs and
\* over two final states, one of them mapped to weight zero.
C8_Witness ==
    /\ Mapped
    /\ mapper.final_action = "MapNoSuperfinal"
    /\ res = "ok"
    /\ Cardinality(FinalStates(prev)) >= 2
    /\ \E s \in FinalStates(fst) : FinalWeight(fst, s) # FinalWeight(prev, s)
    /\ \E s \in StateIds(prev) :
          /\ NumArcs(prev, s) = 2
          /\ ArcsOf(prev, s)[1] # ArcsOf(prev, s)[2]
          /\ ArcsOf(fst, s) # ArcsOf(prev, s)

\* A failed MapNoSuperfinal run that had already changed an arc.
C8_WitnessErr ==
    /\ Mapped
    /\ mapper.final_action = "MapNoSuperfinal"
    /\ res = "err"
    /\ fst # prev

\* The first state whose mapped final arc carries a label, and whether the
\* mapper methods succeed on everything arc_map hands them up to that state.
BadFinal(m, f, s) == IsFinal(f, s) /\ LabelsNotEps(MappedFinal(m, FinalWeight(f, s)))

FirstBadFinal(m, f) ==
    CHOOSE s \in StateIds(f) :
        BadFinal(m, f, s) /\ \A t \in StateIds(f) : BadFinal(m, f, t) => s <= t

MapperOkUpTo(m, f, s) ==
    /\ \A t \in 0 .. s : \A i \in 1 .. NumArcs(f, t) : MapperArcMap(m, ArcsOf(f, t)[i]).ok
    /\ \A t \in 0 .. s : IsFinal(f, t) =>
           MapperFinalArcMap(m, FinalArc(EPS_LABEL, EPS_LABEL, FinalWeight(f, t))).ok

LabelFailure(m, f) ==
    /\ f.start_state # NoState
    /\ \E s \in StateIds(f) : BadFinal(m, f, s)
    /\ MapperOkUpTo(m, f, FirstBadFinal(m, f))

\* C9: under MapNoSuperfinal, when final_arc_map leaves a label on the final
\* weight of state s, arc_map returns an error and rolls nothing back: the
\* arcs of the states up to s and the final weights before s are mapped, the
\* final weight of s and all later states are as before, no state is added.
C9_NoSuperfinalErrorKeepsPrefix ==
    (Mapped /\ mapper.final_action = "MapNoSuperfinal" /\ LabelFailure(mapper, prev)) =>
        LET s == FirstBadFinal(mapper, prev)
        IN /\ res = "err"
           /\ NumStates(fst) = NumStates(prev)
           /\ fst.start_state = prev.start_state
           /\ \A t \in 0 .. s : ArcsOf(fst, t) = MappedArcs(mapper, ArcsOf(prev, t))
           /\ \A t \in 0 .. (s - 1) :
                 FinalWeight(fst, t) = IF IsFinal(prev, t)
                                       THEN MappedFinal(mapper, FinalWeight(prev, t)).weight
                                       ELSE NoWeight
           /\ FinalWeight(fst, s) = FinalWeight(prev, s)
           /\ \A t \in StateIds(prev) : t > s => fst.states[t + 1] = prev.states[t + 1]

\* The error at the middle state of three: the final weight of state 0 and
\* an arc of state 1 are mapped, state 2 with its arc and final weight is not.
C9_Witness ==
    /\ Mapped
    /\ mapper.final_action = "MapNoSuperfinal"
    /\ NumStates(prev) = 3
    /\ LabelFailure(mapper, prev)
    /\ FirstBadFinal(mapper, prev) = 1
    /\ IsFinal(prev, 0) /\ FinalWeight(fst, 0) # FinalWeight(prev, 0)
    /\ NumArcs(prev, 1) = 1 /\ ArcsOf(fst, 1) # ArcsOf(prev, 1)
    /\ NumArcs(prev, 2) = 1 /\ IsFinal(prev, 2)

\* C10: on an FST without start state arc_map returns Ok at once in every
\* mode: no mapper method is called, no state is added, the FST is as it was.
C10_NoStartReturnsAtOnce ==
    (Mapped /\ prev.start_state = NoState) =>
        /\ res = "ok"
        /\ fst = prev
        /\ mapper.arc_calls = 0
        /\ mapper.final_calls = 0

\* A MapRequireSuperfinal run on an FST without start state that has states,
\* arcs and final weights.
C10_Witness ==
    /\ Mapped
    /\ prev.start_state = NoState
    /\ mapper.final_action = "MapRequireSuperfinal"
    /\ NumStates(prev) >= 2
    /\ TotalArcs(prev) >= 1
    /\ FinalStates(prev) # {}

----------------------------------------------------------------------------
(* Claims about the superfinal state of arc_map *)

\* The states arc_map has gone through completely: all of them when no
\* mapper method fails, those before the failing one otherwise.
Processed(m, f) ==
    IF f.start_state = NoState THEN {}
    ELSE {s \in StateIds(f) : MapperOkUpTo(m, f, s)}

\* The arc to the superfinal state sf that carries the mapped final weight w
SuperfinalArc(m, w, sf) ==
    LET fa == MappedFinal(m, w) IN Arc(fa.ilabel, fa.olabel, fa.weight, sf)

\* C11: after a successful arc_map under MapRequireSuperfinal on an FST with
\* a start state and n states, exactly the state n was added; it has final
\* weight one, no arcs, and is the only final state.  Every state that was
\* final has its mapped arcs followed by one arc to n carrying the mapped
\* final arc, or by nothing when that is (EPS_LABEL, EPS_LABEL, zero); the
\* other states have their mapped arcs only.
C11_RequireSuperfinal ==
    (Mapped /\ mapper.final_action = "MapRequireSuperfinal"
            /\ prev.start_state # NoState /\ res = "ok") =>
        LET n == NumStates(prev)
        IN /\ NumStates(fst) = n + 1
           /\ FinalWeight(fst, n) = One
           /\ ArcsOf(fst, n) = <<>>
           /\ FinalStates(fst) = {n}
           /\ fst.start_state = prev.start_state
           /\ \A s \in StateIds(prev) :
                 ArcsOf(fst, s) =
                     MappedArcs(mapper, ArcsOf(prev, s))
                     \o (IF ~IsFinal(prev, s) THEN <<>>
                         ELSE IF MappedFinal(mapper, FinalWeight(prev, s))
                                     = FinalArc(EPS_LABEL, EPS_LABEL, Zero)
                              THEN <<>>
                         ELSE <<SuperfinalArc(mapper, FinalWeight(prev, s), n)>>)

\* A successful MapRequireSuperfinal run over two final states, one with an
\* arc of its own: one gets an arc with a label, the other an arc with
\* epsilon labels and a weight that is not zero.
C11_Witness ==
    /\ Mapped
    /\ mapper.final_action = "MapRequireSuperfinal"
    /\ prev.start_state # NoState
    /\ res = "ok"
    /\ \E s, t \in FinalStates(prev) :
          /\ NumArcs(prev, s) >= 1
          /\ NumArcs(fst, s) = NumArcs(prev, s) + 1
          /\ LabelsNotEps(ArcsOf(fst, s)[NumArcs(fst, s)])
          /\ NumArcs(fst, t) = NumArcs(prev, t) + 1
          /\ ~LabelsNotEps(ArcsOf(fst, t)[NumArcs(fst, t)])

\* C12: under MapAllowSuperfinal a superfinal state is added exactly when
\* some final state that arc_map went through has a mapped final arc with a
\* label; one state n is added however many need it, with final weight one
\* and no arcs.  Each such state has its mapped arcs followed by the arc to n
\* and is no longer final; every other final state gone through keeps its
\* mapped arcs and is final with the mapped weight, zero included.
C12_AllowSuperfinal ==
    (Mapped /\ mapper.final_action = "MapAllowSuperfinal") =>
        LET n == NumStates(prev)
            P == Processed(mapper, prev)
            L == {s \in P : BadFinal(mapper, prev, s)}
        IN /\ NumStates(fst) = IF L = {} THEN n ELSE n + 1
           /\ L # {} => (FinalWeight(fst, n) = One /\ ArcsOf(fst, n) = <<>>)
           /\ \A s \in L :
                 /\ ~IsFinal(fst, s)
                 /\ ArcsOf(fst, s) =
                        Append(MappedArcs(mapper, ArcsOf(prev, s)),
                               SuperfinalArc(mapper, FinalWeight(prev, s), n))
           /\ \A s \in P \ L :
                 /\ ArcsOf(fst, s) = MappedArcs(mapper, ArcsOf(prev, s))
                 /\ FinalWeight(fst, s) =
                        IF IsFinal(prev, s)
                        THEN MappedFinal(mapper, FinalWeight(prev, s)).weight
                        ELSE NoWeight
           /\ (P = StateIds(prev) /\ prev.start_state # NoState) => res = "ok"

\* A successful MapAllowSuperfinal run over three final states: two of them
\* get an arc to the one superfinal state, the third stays final.
C12_Witness ==
    /\ Mapped
    /\ mapper.final_action = "MapAllowSuperfinal"
    /\ res = "ok"
    /\ NumStates(prev) = 3
    /\ NumStates(fst) = 4
    /\ \E s, t, u \in FinalStates(prev) :
          /\ s # t
          /\ BadFinal(mapper, prev, s) /\ BadFinal(mapper, prev, t)
          /\ IsFinal(fst, u)
          /\ FinalWeight(fst, u) # FinalWeight(prev, u)

----------------------------------------------------------------------------
(* relabel_pairs (relabel_pairs.rs).  A pair list is a sequence of         *)
(* <<old, new>>; the HashMap is a function on the set of its keys.         *)

EmptyMap == [k \in {} |-> 0]

MapInsert(map, k, v) == [x \in DOMAIN map \cup {k} |-> IF x = k THEN v ELSE map[x]]

\* for (s1, s2) in pairs { match map_labels.entry(s1) { ... } }
RECURSIVE IteratorToHashmapFrom(_, _, _)
IteratorToHashmapFrom(ps, i, map_labels) ==
    IF i > Len(ps) THEN [ok |-> TRUE, map |-> map_labels]
    ELSE IF ps[i][1] \in DOMAIN map_labels THEN [ok |-> FALSE, map |-> map_labels]
    ELSE IteratorToHashmapFrom(ps, i + 1, MapInsert(map_labels, ps[i][1], ps[i][2]))

iterator_to_hashmap(ps) == IteratorToHashmapFrom(ps, 1, EmptyMap)

\* if let Some(v) = map.get(&label) { label = *v; }
MapGetOr(map, label) == IF label \in DOMAIN map THEN map[label] ELSE label

\* RelabelArc looking the output label up in the map of the input labels.
RelabelArcOneMap(arc, map_ilabels, map_olabels) ==
    [arc EXCEPT !.ilabel = MapGetOr(map_ilabels, arc.ilabel),
                !.olabel = MapGetOr(map_ilabels, arc.olabel)]

\* RelabelArc looking the new label up again, so that (a, b), (b, c) turn a
\* into c.
RelabelArcTwice(arc, map_ilabels, map_olabels) ==
    [arc EXCEPT !.ilabel = MapGetOr(map_ilabels, MapGetOr(map_ilabels, arc.ilabel)),
                !.olabel = MapGetOr(map_olabels, MapGetOr(map_olabels, arc.olabel))]

\* The body of the loop over the arcs: the two lookups of one arc
RelabelArc(arc, map_ilabels, map_olabels) ==
    [arc EXCEPT !.ilabel = MapGetOr(map_ilabels, arc.ilabel),
                !.olabel = MapGetOr(map_olabels, arc.olabel)]

\* for arc in fst.arcs_iter_mut(state_id)? { ... }
RECURSIVE RelabelArcs(_, _, _, _, _)
RelabelArcs(f, state_id, i, map_ilabels, map_olabels) ==
    IF i > NumArcs(f, state_id) THEN f
    ELSE RelabelArcs([f EXCEPT !.states[state_id + 1].arcs[i] =
                          RelabelArc(ArcsOf(f, state_id)[i], map_ilabels, map_olabels)],
                     state_id, i + 1, map_ilabels, map_olabels)

\* for state_id in states { ... }
RECURSIVE RelabelStates(_, _, _, _, _)
RelabelStates(f, state_id, n, map_ilabels, map_olabels) ==
    IF state_id >= n THEN f
    ELSE RelabelStates(RelabelArcs(f, state_id, 1, map_ilabels, map_olabels),
                       state_id + 1, n, map_ilabels, map_olabels)

\* relabel_pairs checking the pair lists only after it has relabelled.
relabel_pairsLateCheck(f, ipairs, opairs) ==
    LET map_ilabels == iterator_to_hashmap(ipairs)
        map_olabels == iterator_to_hashmap(opairs)
    IN [ok  |-> map_ilabels.ok /\ map_olabels.ok,
        fst |-> RelabelStates(f, 0, NumStates(f), map_ilabels.map, map_olabels.map)]

relabel_pairs(f, ipairs, opairs) ==
    LET map_ilabels == iterator_to_hashmap(ipairs)
        map_olabels == iterator_to_hashmap(opairs)
    IN IF ~map_ilabels.ok THEN [ok |-> FALSE, fst |-> f]
       ELSE IF ~map_olabels.ok THEN [ok |-> FALSE, fst |-> f]
       ELSE [ok  |-> TRUE,
             fst |-> RelabelStates(f, 0, NumStates(f), map_ilabels.map, map_olabels.map)]

----------------------------------------------------------------------------
(* union (union.rs) *)

\* MutableFst::add_fst: a new state for every state of the other FST, then
\* the arcs with their targets renumbered; no start is set.  The result is
\* the FST and the mapping from the old ids to the new ones.
RECURSIVE AddFstStates(_, _)
AddFstStates(out, k) == IF k = 0 THEN out ELSE AddFstStates(add_state(out), k - 1)

RECURSIVE AddFstArcs(_, _, _, _, _)
AddFstArcs(out, f, mapping, s, i) ==
    IF s >= NumStates(f) THEN out
    ELSE IF i > NumArcs(f, s) THEN AddFstArcs(out, f, mapping, s + 1, 1)
    ELSE LET a == ArcsOf(f, s)[i]
         IN AddFstArcs(add_arc(out, mapping[s],
                               Arc(a.ilabel, a.olabel, a.weight, mapping[a.nextstate])),
                       f, mapping, s, i + 1)

add_fst(out, f) ==
    LET mapping == [s \in StateIds(f) |-> NumStates(out) + s]
    IN [fst     |-> AddFstArcs(AddFstStates(out, NumStates(f)), f, mapping, 0, 1),
        mapping |-> mapping]

\* add_epsilon_arc_to_initial_state leading to the id the start state had in
\* the input.
add_epsilon_arc_to_initial_stateOldId(f, mapping, fst_out) ==
    IF f.start_state # NoState
    THEN add_arc(fst_out, fst_out.start_state, Arc(0, 0, One, f.start_state))
    ELSE fst_out

add_epsilon_arc_to_initial_state(f, mapping, fst_out) ==
    IF f.start_state # NoState
    THEN add_arc(fst_out, fst_out.start_state,
                 Arc(0, 0, One, mapping[f.start_state]))
    ELSE fst_out

\* set_new_final_states setting the final weight at the id the state had in
\* the input.
RECURSIVE set_new_final_statesOldId(_, _, _, _)
set_new_final_statesOldId(f, mapping, fst_out, s) ==
    IF s >= NumStates(f) THEN fst_out
    ELSE set_new_final_statesOldId(
             f, mapping,
             IF IsFinal(f, s) THEN set_final(fst_out, s, FinalWeight(f, s)) ELSE fst_out,
             s + 1)

\* for old_final_state in fst.final_states_iter() { ... }, from state s on
RECURSIVE set_new_final_states(_, _, _, _)
set_new_final_states(f, mapping, fst_out, s) ==
    IF s >= NumStates(f) THEN fst_out
    ELSE set_new_final_states(
             f, mapping,
             IF IsFinal(f, s) THEN set_final(fst_out, mapping[s], FinalWeight(f, s))
             ELSE fst_out,
             s + 1)

union(fst_a, fst_b) ==
    LET out0 == set_start(add_state(NewFst), 0)
        r1   == add_fst(out0, fst_a)
        r2   == add_fst(r1.fst, fst_b)
        e1   == add_epsilon_arc_to_initial_state(fst_a, r1.mapping, r2.fst)
        e2   == add_epsilon_arc_to_initial_state(fst_b, r2.mapping, e1)
        f1   == set_new_final_states(fst_a, r1.mapping, e2, 0)
    IN set_new_final_states(fst_b, r2.mapping, f1, 0)

----------------------------------------------------------------------------
(* Specification of the leaf algorithms: build an FST, then either map it, *)
(* connect it, relabel it (and relabel the result with the inverse pairs), *)
(* or build a second FST and take the union of the two.                    *)

\* Bounds of the FSTs and pair lists of this specification
MaxAlgoStates == 2

MaxAlgoArcs == 2

MaxSecondArcs == 1

MaxPairs == 2

MaxLabel == 2

AlgoArcKinds == {<<1, 2, 1>>, <<2, 1, 2>>}

AlgoFinalWeights == {2}

AlgoLabels == 1 .. MaxLabel

\* The pair lists: every sequence of at most MaxPairs pairs of labels
PairLists == UNION {[1 .. n -> AlgoLabels \X AlgoLabels] : n \in 0 .. MaxPairs}

AlgoAddState == NumStates(fst) < MaxAlgoStates /\ BuildAddState

AlgoAddArc == BuildAddArc(AlgoArcKinds, MaxAlgoArcs)

AlgoSetFinal == BuildSetFinal(AlgoFinalWeights)

\* The second FST is built like the first, after it.
SecondStep(f) ==
    /\ pc \in {"build", "build2"}
    /\ pc' = "build2"
    /\ fst_2' = f
    /\ UNCHANGED <<fst, prev, dfs, vis, it_path, mapper, res, pairs, wop>>

SecondAddState ==
    /\ NumStates(fst_2) < MaxAlgoStates
    /\ NoArcs(fst_2, 0) /\ NoFinals(fst_2, 0) /\ fst_2.start_state = NoState
    /\ SecondStep(add_state(fst_2))

SecondAddArc ==
    /\ TotalArcs(fst_2) < MaxSecondArcs
    /\ NoFinals(fst_2, 0) /\ fst_2.start_state = NoState
    /\ \E s \in StateIds(fst_2), t \in StateIds(fst_2), k \in AlgoArcKinds :
          /\ NoArcs(fst_2, s + 1)
          /\ SecondStep(add_arc(fst_2, s, Arc(k[1], k[2], k[3], t)))

SecondSetFinal ==
    /\ fst_2.start_state = NoState
    /\ \E s \in StateIds(fst_2), w \in AlgoFinalWeights :
          /\ NoFinals(fst_2, s)
          /\ SecondStep(set_final(fst_2, s, w))

SecondSetStart ==
    /\ fst_2.start_state = NoState
    /\ \E s \in StateIds(fst_2) : SecondStep(set_start(fst_2, s))

Union ==
    /\ pc \in {"build", "build2"}
    /\ fst' = union(fst, fst_2)
    /\ prev' = fst
    /\ pc' = "united"
    /\ res' = "ok"
    /\ UNCHANGED <<dfs, vis, it_path, mapper, fst_2, pairs, wop>>

Relabel ==
    /\ pc = "build"
    /\ \E ipairs \in PairLists, opairs \in PairLists :
          LET r == relabel_pairs(fst, ipairs, opairs)
          IN /\ fst' = r.fst
             /\ res' = IF r.ok THEN "ok" ELSE "err"
             /\ pairs' = [ipairs |-> ipairs, opairs |-> opairs]
    /\ prev' = fst
    /\ pc' = "relabelled"
    /\ UNCHANGED <<dfs, vis, it_path, mapper, fst_2, wop>>

\* The pairs (new, old) of the pairs (old, new)
InversePairs(ps) == [i \in DOMAIN ps |-> <<ps[i][2], ps[i][1]>>]

\* The caller relabels the result with the inverse pairs on the same sides;
\* prev stays the FST before the first relabelling.
RelabelBack ==
    /\ pc = "relabelled"
    /\ res = "ok"
    /\ LET r == relabel_pairs(fst, InversePairs(pairs.ipairs), InversePairs(pairs.opairs))
       IN /\ fst' = r.fst
          /\ res' = IF r.ok THEN "ok" ELSE "err"
    /\ pc' = "relabelled2"
    /\ UNCHANGED <<prev, dfs, vis, it_path, mapper, fst_2, pairs, wop>>

NextAlgorithms ==
    \/ AlgoAddState
    \/ BuildSetStart
    \/ AlgoSetFinal
    \/ AlgoAddArc
    \/ SecondAddState
    \/ SecondAddArc
    \/ SecondSetFinal
    \/ SecondSetStart
    \/ ArcMap
    \/ Connect
    \/ Relabel
    \/ RelabelBack
    \/ Union

SpecAlgorithms == Init /\ [][NextAlgorithms]_vars

----------------------------------------------------------------------------
(* Claims about relabel_pairs *)

Relabelled == pc = "relabelled"

\* The same old label twice as a key of a pair list
HasDuplicateKey(ps) == \E i, j \in DOMAIN ps : i < j /\ ps[i][1] = ps[j][1]

Keys(ps) == {ps[i][1] : i \in DOMAIN ps}

\* The image of a label under a pair list: the new label of its pair, or the
\* label itself when it is no key.
Image(ps, l) ==
    IF l \in Keys(ps) THEN ps[CHOOSE i \in DOMAIN ps : ps[i][1] = l][2] ELSE l

ArcSet(f) == UNION {{ArcsOf(f, s)[i] : i \in 1 .. NumArcs(f, s)} : s \in StateIds(f)}

ILabels(f) == {a.ilabel : a \in ArcSet(f)}

OLabels(f) == {a.olabel : a \in ArcSet(f)}

\* C14: a successful relabel_pairs replaces every ilabel by its image under
\* ipairs and every olabel by its image under opairs, each looked up once
\* and in its own list only; a label that is no key stays.  Weights,
\* nextstates, the order of the arcs, final weights, the start state and the
\* number of states are as before.
C14_RelabelMapsLabels ==
    (Relabelled /\ res = "ok") =>
        /\ NumStates(fst) = NumStates(prev)
        /\ fst.start_state = prev.start_state
        /\ \A s \in StateIds(prev) :
              /\ FinalWeight(fst, s) = FinalWeight(prev, s)
              /\ NumArcs(fst, s) = NumArcs(prev, s)
              /\ \A i \in 1 .. NumArcs(prev, s) :
                    LET old == ArcsOf(prev, s)[i]
                    IN ArcsOf(fst, s)[i] =
                           Arc(Image(pairs.ipairs, old.ilabel),
                               Image(pairs.opairs, old.olabel),
                               old.weight, old.nextstate)

\* A relabelling with ipairs (1, 2), (2, 1) and opairs (2, 2) of an FST with
\* the arcs 1:2 and 2:1, a final state and a start state: the ilabel 1
\* becomes 2 and not 1 again, the olabels stay although they are keys of
\* ipairs.
C14_Witness ==
    /\ Relabelled
    /\ res = "ok"
    /\ pairs = [ipairs |-> <<<<1, 2>>, <<2, 1>>>>, opairs |-> <<<<2, 2>>>>]
    /\ prev.start_state # NoState
    /\ FinalStates(prev) # {}
    /\ \E s \in StateIds(prev) :
          /\ NumArcs(prev, s) = 2
          /\ ArcsOf(prev, s)[1].ilabel = 1 /\ ArcsOf(fst, s)[1].ilabel = 2
          /\ ArcsOf(prev, s)[2].ilabel = 2 /\ ArcsOf(fst, s)[2].ilabel = 1
          /\ ArcsOf(fst, s)[1].olabel = 2 /\ ArcsOf(fst, s)[2].olabel = 1

\* C15: relabel_pairs returns an error exactly when an old label is twice a
\* key within ipairs or twice within opairs, whatever the new labels are; a
\* key that is once in each list is no error.  On the error the FST is as it
\* was.
C15_RelabelDuplicateKey ==
    Relabelled =>
        /\ res = "err" <=> (HasDuplicateKey(pairs.ipairs) \/ HasDuplicateKey(pairs.opairs))
        /\ res = "err" => fst = prev

\* An error for the opairs (1, 2), (1, 2) alone, on an FST with an arc that
\* the ipairs would have relabelled.
C15_Witness ==
    /\ Relabelled
    /\ res = "err"
    /\ pairs.opairs = <<<<1, 2>>, <<1, 2>>>>
    /\ pairs.ipairs = <<<<1, 2>>>>
    /\ 1 \in ILabels(prev)
    /\ 1 \in OLabels(prev)

\* A pair list is one to one on the labels involved: no key twice, and no
\* two labels among its keys and the labels of the FST have the same image.
OneToOne(ps, labels) ==
    /\ ~HasDuplicateKey(ps)
    /\ \A a, b \in labels \cup Keys(ps) : Image(ps, a) = Image(ps, b) => a = b

\* C16: when ipairs is one to one on the input labels and opairs on the
\* output labels, relabel_pairs followed by relabel_pairs with the inverse
\* pairs succeeds and gives back the FST as it was.
C16_RelabelRoundTrip ==
    (pc = "relabelled2" /\ OneToOne(pairs.ipairs, ILabels(prev))
                        /\ OneToOne(pairs.opairs, OLabels(prev))) =>
        /\ res = "ok"
        /\ fst = prev

\* A round trip that exchanges the input labels 1 and 2 and turns the output
\* label 2 into 1 and back, on an FST whose arcs all change.
C16_Witness ==
    /\ pc = "relabelled2"
    /\ res = "ok"
    /\ pairs = [ipairs |-> <<<<1, 2>>, <<2, 1>>>>, opairs |-> <<<<2, 1>>>>]
    /\ OneToOne(pairs.ipairs, ILabels(prev))
    /\ OneToOne(pairs.opairs, OLabels(prev))
    /\ TotalArcs(prev) = 2
    /\ OLabels(prev) = {2}
    /\ fst = prev

----------------------------------------------------------------------------
(* Claims about union and about well-formedness *)

United == pc = "united"

\* C17: when the accessible parts of A and B are acyclic, the bag of
\* (input labels, output labels, weight) of the start-to-final paths of
\* union(A, B) is the sum of the bags of A and of B: the epsilon arc from the
\* new start adds no label and the weight one.  An input without start state
\* has no path, so the paths of the union are those of the other input.
C17_UnionPaths ==
    (United /\ AccessibleAcyclic(prev) /\ AccessibleAcyclic(fst_2)) =>
        /\ PathsOf(fst) = PathsOf(prev) (+) PathsOf(fst_2)
        /\ prev.start_state = NoState => PathsOf(fst) = PathsOf(fst_2)
        /\ fst_2.start_state = NoState => PathsOf(fst) = PathsOf(prev)

\* A union of two acyclic FSTs that share a path, the first with a second
\* path of its own: the shared path is twice in the union.
C17_Witness ==
    /\ United
    /\ AccessibleAcyclic(prev) /\ AccessibleAcyclic(fst_2)
    /\ \E p \in BagToSet(PathsOf(prev)) :
          /\ Len(p[1]) >= 1
          /\ CopiesIn(p, PathsOf(fst_2)) = 1
          /\ CopiesIn(p, PathsOf(fst)) = 2
    /\ Cardinality(BagToSet(PathsOf(fst))) >= 2
    /\ prev.start_state # 0

\* The ids of the states the FST had are the same: no fewer states, the same
\* start state, and every arc that was there still leads to the same state.
SameStateIds(old, new) ==
    /\ NumStates(new) >= NumStates(old)
    /\ new.start_state = old.start_state
    /\ \A s \in StateIds(old) :
          /\ NumArcs(new, s) >= NumArcs(old, s)
          /\ \A i \in 1 .. NumArcs(old, s) :
                ArcsOf(new, s)[i].nextstate = ArcsOf(old, s)[i].nextstate

\* C13: from well-formed inputs, the FST is well-formed after arc_map in
\* every mode, whether it returns Ok or Err, after relabel_pairs, after
\* connect, and so is the FST union returns; arc_map and relabel_pairs leave
\* the ids of the states that were there unchanged.
C13_WellFormedKept ==
    (WellFormed(prev) /\ WellFormed(fst_2)) =>
        /\ pc \in {"mapped", "relabelled", "relabelled2", "connected",
                   "connected2", "united"} => WellFormed(fst)
        /\ pc \in {"mapped", "relabelled", "relabelled2"} => SameStateIds(prev, fst)

\* A MapRequireSuperfinal run that failed after it had added an arc to the
\* superfinal state.
C13_Witness ==
    /\ Mapped
    /\ mapper.final_action = "MapRequireSuperfinal"
    /\ res = "err"
    /\ NumStates(fst) = NumStates(prev) + 1
    /\ \E s \in StateIds(prev) :
          /\ NumArcs(fst, s) = NumArcs(prev, s) + 1
          /\ ArcsOf(fst, s)[NumArcs(fst, s)].nextstate = NumStates(prev)

----------------------------------------------------------------------------
(* Specification of the weight inversion: build an FST with tropical       *)
(* weights, apply arc_map with the InvertWeightMapper, and apply it again. *)

\* Weights other than one() and zero(), whose reciprocals differ from them
InvertArcKinds == {<<1, 1, 2>>, <<2, 3, 3>>}

InvertFinalWeights == {2, 3}

InvertSetFinal == BuildSetFinal(InvertFinalWeights)

InvertAddArc == BuildAddArc(InvertArcKinds, MaxMapArcs)

\* prev stays the FST before the first application.
InvertWeights ==
    /\ pc \in {"build", "inverted"}
    /\ LET r == arc_map(fst, InvertWeightMapper)
       IN /\ fst' = r.fst
          /\ mapper' = r.mapper
          /\ res' = IF r.ok THEN "ok" ELSE "err"
    /\ prev' = IF pc = "build" THEN fst ELSE prev
    /\ pc' = IF pc = "build" THEN "inverted" ELSE "inverted2"
    /\ UNCHANGED <<dfs, vis>>
    /\ UNCHANGED operands

NextInvert ==
    \/ BuildAddState
    \/ BuildSetStart
    \/ InvertSetFinal
    \/ InvertAddArc
    \/ InvertWeights

SpecInvert == Init /\ [][NextInvert]_vars

----------------------------------------------------------------------------
(* Claims about the InvertWeightMapper *)

\* The FST but for its weights: labels and nextstates of the arcs in their
\* order, the final states, the start state
Unweighted(f) ==
    [start  |-> f.start_state,
     finals |-> FinalStates(f),
     arcs   |-> [s \in StateIds(f) |->
                    [i \in 1 .. NumArcs(f, s) |->
                        [ilabel    |-> ArcsOf(f, s)[i].ilabel,
                         olabel    |-> ArcsOf(f, s)[i].olabel,
                         nextstate |-> ArcsOf(f, s)[i].nextstate]]]]

\* C18: arc_map with the InvertWeightMapper, applied twice to an FST whose
\* weights are not zero, gives back every arc weight and every final weight;
\* each application succeeds and leaves labels, nextstates, the order of the
\* arcs and the set of final states as they were.
C18_InvertTwice ==
    /\ pc \in {"inverted", "inverted2"} => (res = "ok" /\ Unweighted(fst) = Unweighted(prev))
    /\ pc = "inverted2" => fst = prev

\* Two applications to an FST with a start state, two arcs of different
\* weights and a final state, the first of which changed every weight.
C18_Witness ==
    /\ pc = "inverted2"
    /\ fst = prev
    /\ prev.start_state # NoState
    /\ FinalStates(prev) # {}
    /\ mapper.arc_calls = 2
    /\ mapper.final_calls >= 1
    /\ \E s \in StateIds(prev) :
          /\ NumArcs(prev, s) = 2
          /\ ArcsOf(prev, s)[1].weight # ArcsOf(prev, s)[2].weight
          /\ \A i \in 1 .. 2 :
                ArcsOf(arc_map(prev, InvertWeightMapper).fst, s)[i].weight
                    # ArcsOf(prev, s)[i].weight

----------------------------------------------------------------------------
(* Specification of the string weights: two weights are given, then plus   *)
(* is applied in one of the three semirings.                               *)

LabelSeqs == UNION {[1 .. n -> 1 .. MaxStringLabel] : n \in 0 .. MaxLen}

StringWeights == {Infinity} \cup {Labels(v) : v \in LabelSeqs}

InitString ==
    /\ fst = NewFst
    /\ prev = NewFst
    /\ pc = "weights"
    /\ dfs = NoDfs
    /\ vis = NoVisitor
    /\ mapper = NoMapper
    /\ res = "none"
    /\ fst_2 = NewFst
    /\ pairs = NoPairs
    /\ it_path = NoIterator
    /\ wop \in {[self |-> x, rhs |-> y, before |-> x,
                 string_type |-> "none", divide_type |-> "none"] :
                    x, y \in StringWeights}

PlusAssign(string_type) ==
    /\ pc = "weights"
    /\ LET r == plus_assign(string_type, wop.self, wop.rhs)
       IN /\ wop' = [wop EXCEPT !.self = r.value]
          /\ res' = IF r.ok THEN "ok" ELSE "err"
    /\ pc' = string_type
    /\ UNCHANGED <<fst, prev, dfs, vis, it_path, mapper, fst_2, pairs>>

PlusRestrict == PlusAssign("StringRestrict")

PlusLeft == PlusAssign("StringLeft")

PlusRight == PlusAssign("StringRight")

\* self.times_assign(rhs)
TimesAssign ==
    /\ pc = "weights"
    /\ wop' = [wop EXCEPT !.self = times_assign(wop.self, wop.rhs)]
    /\ res' = "ok"
    /\ pc' = "times"
    /\ UNCHANGED <<fst, prev, dfs, vis, it_path, mapper, fst_2, pairs>>

\* self.divide_assign(rhs, divide_type) in one of the three semirings
DivideAssign ==
    /\ pc = "weights"
    /\ \E string_type \in StringTypes, divide_type \in DivideTypes :
          LET r == divide_assign(string_type, wop.self, wop.rhs, divide_type)
          IN /\ wop' = [wop EXCEPT !.self = r.value, !.string_type = string_type,
                                   !.divide_type = divide_type]
             /\ res' = r.res
    /\ pc' = "divided"
    /\ UNCHANGED <<fst, prev, dfs, vis, it_path, mapper, fst_2, pairs>>

\* The product x times y divided on the left by x or on the right by y
DivideProduct ==
    /\ pc = "times"
    /\ \E string_type \in StringTypes, divide_type \in {"DivideLeft", "DivideRight"} :
          LET d == IF divide_type = "DivideLeft" THEN wop.before ELSE wop.rhs
              r == divide_assign(string_type, wop.self, d, divide_type)
          IN /\ wop' = [wop EXCEPT !.self = r.value, !.string_type = string_type,
                                   !.divide_type = divide_type]
             /\ res' = r.res
    /\ pc' = "times_divided"
    /\ UNCHANGED <<fst, prev, dfs, vis, it_path, mapper, fst_2, pairs>>

\* The FST with one weighted arc from its start state to a final state, or
\* the FST whose only state is final
StringFst(shape, w1, w2) ==
    IF shape = "arc"
    THEN set_final(
             add_arc(set_start(add_state(add_state(NewFst)), 0), 0, Arc(1, 1, w1, 1)),
             1, w2)
    ELSE set_final(set_start(add_state(NewFst), 0), 0, w1)

\* arc_map(&mut fst, &mut InvertWeightMapper {}) on an FST over one of the
\* string semirings, whose weights are the two operands
InvertStringWeights ==
    /\ pc = "weights"
    /\ \E string_type \in StringTypes, shape \in {"arc", "final"} :
          LET f == StringFst(shape, StringCode(wop.self), StringCode(wop.rhs))
              r == arc_map(f, StringInvertWeightMapper(string_type))
          IN /\ prev' = f
             /\ fst' = r.fst
             /\ mapper' = r.mapper
             /\ res' = IF r.ok THEN "ok" ELSE "err"
             /\ wop' = [wop EXCEPT !.string_type = string_type]
    /\ pc' = "inverted_string"
    /\ UNCHANGED <<dfs, vis, it_path, fst_2, pairs>>

NextString ==
    \/ InvertStringWeights
    \/ PlusRestrict
    \/ PlusLeft
    \/ PlusRight
    \/ TimesAssign
    \/ DivideAssign
    \/ DivideProduct

SpecString == InitString /\ [][NextString]_vars

----------------------------------------------------------------------------
(* Specification of the semiring laws of StringWeightLeft and              *)
(* StringWeightRight: three weights x, y and z are given, then the two     *)
(* sides of one law are computed with plus_assign and times_assign.        *)

MaxLawLen == 2

LawWeights ==
    {Infinity} \cup
        {Labels(v) : v \in UNION {[1 .. n -> 1 .. MaxStringLabel] : n \in 0 .. MaxLawLen}}

LawTypes == {"StringLeft", "StringRight"}

InitLaws ==
    /\ fst = NewFst
    /\ prev = NewFst
    /\ pc = "weights"
    /\ dfs = NoDfs
    /\ vis = NoVisitor
    /\ mapper = NoMapper
    /\ res = "none"
    /\ fst_2 = NewFst
    /\ pairs = NoPairs
    /\ it_path = NoIterator
    /\ wop \in {[x |-> x, y |-> y, z |-> z, left |-> x, right |-> x,
                 string_type |-> "none"] : x, y, z \in LawWeights}

\* a.plus(b): the sum, and whether plus_assign succeeded
Plus(string_type, a, b) == plus_assign(string_type, a, b)

\* One law: its two sides are computed and kept, with the success of every
\* plus_assign on the way.
Law(name, string_type, left, right, ok) ==
    /\ pc = "weights"
    /\ wop' = [wop EXCEPT !.left = left, !.right = right, !.string_type = string_type]
    /\ res' = IF ok THEN "ok" ELSE "err"
    /\ pc' = name
    /\ UNCHANGED <<fst, prev, dfs, vis, it_path, mapper, fst_2, pairs>>

\* (x + y) + z and x + (y + z)
PlusAssociative ==
    \E t \in LawTypes :
        LET xy == Plus(t, wop.x, wop.y)
            l  == Plus(t, xy.value, wop.z)
            yz == Plus(t, wop.y, wop.z)
            r  == Plus(t, wop.x, yz.value)
        IN Law("plus_associative", t, l.value, r.value, xy.ok /\ l.ok /\ yz.ok /\ r.ok)

\* x + x and x
PlusIdempotent ==
    \E t \in LawTypes :
        LET xx == Plus(t, wop.x, wop.x)
        IN Law("plus_idempotent", t, xx.value, wop.x, xx.ok)

\* (x * y) * z and x * (y * z)
TimesAssociative ==
    \E t \in LawTypes :
        Law("times_associative", t,
            times_assign(times_assign(wop.x, wop.y), wop.z),
            times_assign(wop.x, times_assign(wop.y, wop.z)), TRUE)

\* zero() * x and x * zero()
ZeroTimes ==
    \E t \in LawTypes :
        Law("zero_times", t, times_assign(StringZero, wop.x),
            times_assign(wop.x, StringZero), TRUE)

\* one() * x and x * one()
OneTimes ==
    \E t \in LawTypes :
        Law("one_times", t, times_assign(StringOne, wop.x),
            times_assign(wop.x, StringOne), TRUE)

\* x * (y + z) and x * y + x * z
DistributesLeft ==
    \E t \in LawTypes :
        LET yz == Plus(t, wop.y, wop.z)
            r  == Plus(t, times_assign(wop.x, wop.y), times_assign(wop.x, wop.z))
        IN Law("distributes_left", t, times_assign(wop.x, yz.value), r.value,
               yz.ok /\ r.ok)

\* (y + z) * x and y * x + z * x
DistributesRight ==
    \E t \in LawTypes :
        LET yz == Plus(t, wop.y, wop.z)
            r  == Plus(t, times_assign(wop.y, wop.x), times_assign(wop.z, wop.x))
        IN Law("distributes_right", t, times_assign(yz.value, wop.x), r.value,
               yz.ok /\ r.ok)

NextLaws ==
    \/ PlusAssociative
    \/ PlusIdempotent
    \/ TimesAssociative
    \/ ZeroTimes
    \/ OneTimes
    \/ DistributesLeft
    \/ DistributesRight

SpecLaws == InitLaws /\ [][NextLaws]_vars

----------------------------------------------------------------------------
(* Semiring properties (SemiringProperties is a set of flags) and the      *)
(* properties of a product semiring (product_weight.rs).                   *)

SemiringFlags == {"LEFT_SEMIRING", "RIGHT_SEMIRING", "COMMUTATIVE", "IDEMPOTENT", "PATH"}

\* fn properties() of the three string semirings
StringProperties(string_type) ==
    IF string_type = "StringRestrict"
    THEN {"LEFT_SEMIRING", "RIGHT_SEMIRING", "IDEMPOTENT"}
    ELSE IF string_type = "StringLeft" THEN {"LEFT_SEMIRING", "IDEMPOTENT"}
    ELSE {"RIGHT_SEMIRING", "IDEMPOTENT"}

\* ProductProperties without the mask of the four flags.
ProductPropertiesNoMask(p1, p2) == p1 \cap p2

\* ProductWeight::properties, p1 and p2 being W1::properties() and
\* W2::properties()
ProductProperties(p1, p2) ==
    (p1 \cap p2) \cap {"LEFT_SEMIRING", "RIGHT_SEMIRING", "COMMUTATIVE", "IDEMPOTENT"}

\* The component semirings: the three string semirings and semirings with
\* any set of flags
Components ==
    {[name |-> t, properties |-> StringProperties(t)] : t \in StringTypes}
        \cup {[name |-> "other", properties |-> p] : p \in SUBSET SemiringFlags}

InitProperties ==
    /\ fst = NewFst
    /\ prev = NewFst
    /\ pc = "components"
    /\ dfs = NoDfs
    /\ vis = NoVisitor
    /\ mapper = NoMapper
    /\ res = "none"
    /\ fst_2 = NewFst
    /\ pairs = NoPairs
    /\ it_path = NoIterator
    /\ wop \in {[w1 |-> a, w2 |-> b, properties |-> {}] : a, b \in Components}

\* ProductWeight::<W1, W2>::properties()
Properties ==
    /\ pc = "components"
    /\ wop' = [wop EXCEPT
                 !.properties = ProductProperties(wop.w1.properties, wop.w2.properties)]
    /\ pc' = "product"
    /\ UNCHANGED <<fst, prev, dfs, vis, it_path, mapper, res, fst_2, pairs>>

\* ProductWeight::<ProductWeight<W1, W2>, W3>::properties(), W3 being a
\* string semiring
NestedProperties ==
    /\ pc = "product"
    /\ \E t \in StringTypes :
          wop' = [w1 |-> [name |-> "product", properties |-> wop.properties],
                  w2 |-> [name |-> t, properties |-> StringProperties(t)],
                  properties |-> ProductProperties(wop.properties, StringProperties(t))]
    /\ pc' = "nested"
    /\ UNCHANGED <<fst, prev, dfs, vis, it_path, mapper, res, fst_2, pairs>>

NextProperties ==
    \/ Properties
    \/ NestedProperties

SpecProperties == InitProperties /\ [][NextProperties]_vars

----------------------------------------------------------------------------
(* Claims about the string weights *)

IsPrefix(p, x) == Len(p) <= Len(x) /\ SubSeq(x, 1, Len(p)) = p

IsSuffix(p, x) == Len(p) <= Len(x) /\ SubSeq(x, Len(x) - Len(p) + 1, Len(x)) = p

Prefixes(x) == {SubSeq(x, 1, k) : k \in 0 .. Len(x)}

Suffixes(x) == {SubSeq(x, Len(x) - k + 1, Len(x)) : k \in 0 .. Len(x)}

\* The longest sequence that is a prefix of x and of y
LongestCommonPrefix(x, y) ==
    CHOOSE p \in Prefixes(x) :
        /\ IsPrefix(p, y)
        /\ \A q \in Prefixes(x) : IsPrefix(q, y) => Len(q) <= Len(p)

\* The longest sequence that is a suffix of x and of y, read left to right
LongestCommonSuffix(x, y) ==
    CHOOSE p \in Suffixes(x) :
        /\ IsSuffix(p, y)
        /\ \A q \in Suffixes(x) : IsSuffix(q, y) => Len(q) <= Len(p)

Finite(w) == w.variant = "Labels"

\* C19: for finite x and y, plus of StringWeightLeft is the longest common
\* prefix and plus of StringWeightRight the longest common suffix, in the
\* order of x; in both, Infinity on either side gives the other operand.
C19_StringPlusLeftRight ==
    pc \in {"StringLeft", "StringRight"} =>
        /\ res = "ok"
        /\ wop.self =
              IF wop.before = Infinity THEN wop.rhs
              ELSE IF wop.rhs = Infinity THEN wop.before
              ELSE IF pc = "StringLeft"
              THEN Labels(LongestCommonPrefix(wop.before.labels, wop.rhs.labels))
              ELSE Labels(LongestCommonSuffix(wop.before.labels, wop.rhs.labels))

\* A plus of StringWeightRight whose result has two different labels and is
\* shorter than both operands.
C19_Witness ==
    /\ pc = "StringRight"
    /\ Finite(wop.before) /\ Finite(wop.rhs)
    /\ Len(wop.self.labels) = 2
    /\ wop.self.labels[1] # wop.self.labels[2]
    /\ Len(wop.before.labels) = 3 /\ Len(wop.rhs.labels) = 3

\* C20: plus of StringWeightRestrict on two finite sequences succeeds with
\* the left operand when they are equal and fails when they differ, the
\* receiver keeping its value; with Infinity on either side it succeeds with
\* the other operand.
C20_StringPlusRestrict ==
    pc = "StringRestrict" =>
        IF wop.before = Infinity THEN res = "ok" /\ wop.self = wop.rhs
        ELSE IF wop.rhs = Infinity THEN res = "ok" /\ wop.self = wop.before
        ELSE /\ res = "ok" <=> wop.before = wop.rhs
             /\ wop.self = wop.before

\* A failed plus of StringWeightRestrict on two sequences with a common
\* prefix.
C20_Witness ==
    /\ pc = "StringRestrict"
    /\ res = "err"
    /\ Finite(wop.before) /\ Finite(wop.rhs)
    /\ Len(wop.rhs.labels) > Len(wop.before.labels)
    /\ IsPrefix(wop.before.labels, wop.rhs.labels)
    /\ Len(wop.before.labels) >= 1
    /\ wop.self = wop.before

Supported(string_type, divide_type) ==
    \/ string_type = "StringLeft" /\ divide_type = "DivideLeft"
    \/ string_type = "StringRight" /\ divide_type = "DivideRight"
    \/ string_type = "StringRestrict" /\ divide_type \in {"DivideLeft", "DivideRight"}

Min(a, b) == IF a < b THEN a ELSE b

\* C21: a division on a supported side of a finite x by a finite y succeeds
\* and leaves x without its first |y| labels (left) or without its last |y|
\* labels (right); Infinity divided by a finite sequence is Infinity; and
\* for finite x and y, x times y divided on the left by x is y and divided
\* on the right by y is x.
C21_StringDivide ==
    /\ (pc = "divided" /\ Supported(wop.string_type, wop.divide_type)
            /\ Finite(wop.rhs)) =>
          /\ res = "ok"
          /\ IF ~Finite(wop.before) THEN wop.self = Infinity
             ELSE LET x == wop.before.labels
                      n == Min(Len(x), Len(wop.rhs.labels))
                  IN /\ Finite(wop.self)
                     /\ Len(wop.self.labels) = Len(x) - n
                     /\ IF wop.divide_type = "DivideLeft"
                        THEN SubSeq(x, 1, n) \o wop.self.labels = x
                        ELSE wop.self.labels \o SubSeq(x, Len(x) - n + 1, Len(x)) = x
    /\ (pc = "times_divided" /\ Supported(wop.string_type, wop.divide_type)
            /\ Finite(wop.before) /\ Finite(wop.rhs)) =>
          /\ res = "ok"
          /\ wop.self = IF wop.divide_type = "DivideLeft" THEN wop.rhs ELSE wop.before

\* A right division in StringWeightRight that gives back the first factor of
\* a product of two different sequences of two or more labels.
C21_Witness ==
    /\ pc = "times_divided"
    /\ res = "ok"
    /\ wop.string_type = "StringRight" /\ wop.divide_type = "DivideRight"
    /\ Finite(wop.before) /\ Finite(wop.rhs)
    /\ Len(wop.before.labels) >= 2 /\ Len(wop.rhs.labels) >= 2
    /\ wop.before # wop.rhs
    /\ wop.self = wop.before

\* C22: a division on a side the semiring does not support fails and leaves
\* the dividend as it was: StringWeightLeft supports DivideLeft only,
\* StringWeightRight DivideRight only, StringWeightRestrict both and not
\* DivideAny; so arc_map with the InvertWeightMapper over a string semiring
\* fails on the first weight it maps, the FST being left as it was.
C22_StringDivideUnsupported ==
    /\ (pc = "divided" /\ ~Supported(wop.string_type, wop.divide_type)) =>
          /\ res = "err"
          /\ wop.self = wop.before
    /\ (pc = "divided" /\ res = "err") => ~Supported(wop.string_type, wop.divide_type)
    /\ pc = "inverted_string" =>
          /\ res = "err"
          /\ mapper.arc_calls + mapper.final_calls = 1
          /\ fst = prev

\* A right division refused by StringWeightLeft although the divisor is a
\* suffix of the dividend.
C22_Witness ==
    /\ pc = "divided"
    /\ res = "err"
    /\ wop.string_type = "StringLeft" /\ wop.divide_type = "DivideRight"
    /\ Finite(wop.before) /\ Finite(wop.rhs)
    /\ Len(wop.rhs.labels) >= 1
    /\ Len(wop.before.labels) > Len(wop.rhs.labels)
    /\ IsSuffix(wop.rhs.labels, wop.before.labels)
    /\ wop.self = wop.before

\* C23: in StringWeightLeft and StringWeightRight, for all x, y and z, plus
\* is associative and idempotent, times is associative, Infinity times x
\* and x times Infinity are Infinity, the empty sequence times x and x
\* times the empty sequence are x, and times distributes over plus from the
\* left in StringWeightLeft and from the right in StringWeightRight.
C23_StringSemiringLaws ==
    /\ pc \in {"plus_associative", "plus_idempotent", "times_associative"} =>
          res = "ok" /\ wop.left = wop.right
    /\ pc = "zero_times" => wop.left = Infinity /\ wop.right = Infinity
    /\ pc = "one_times" => wop.left = wop.x /\ wop.right = wop.x
    /\ (pc = "distributes_left" /\ wop.string_type = "StringLeft") =>
          res = "ok" /\ wop.left = wop.right
    /\ (pc = "distributes_right" /\ wop.string_type = "StringRight") =>
          res = "ok" /\ wop.left = wop.right

\* The left distribution in StringWeightLeft over two different sequences
\* with a common prefix, the factor x not being empty.
C23_Witness ==
    /\ pc = "distributes_left"
    /\ wop.string_type = "StringLeft"
    /\ Finite(wop.x) /\ Finite(wop.y) /\ Finite(wop.z)
    /\ Len(wop.x.labels) >= 1
    /\ Len(wop.y.labels) = 2 /\ Len(wop.z.labels) = 2
    /\ wop.y # wop.z
    /\ wop.y.labels[1] = wop.z.labels[1]
    /\ wop.left = Labels(wop.x.labels \o <<wop.y.labels[1]>>)
    /\ wop.left = wop.right

\* C24: the properties of a product semiring are the flags among
\* LEFT_SEMIRING, RIGHT_SEMIRING, COMMUTATIVE and IDEMPOTENT that both
\* components have, and no other flag; the product of StringWeightLeft and
\* StringWeightRight has IDEMPOTENT only.
C24_ProductProperties ==
    pc \in {"product", "nested"} =>
        /\ \A f \in {"LEFT_SEMIRING", "RIGHT_SEMIRING", "COMMUTATIVE", "IDEMPOTENT"} :
              f \in wop.properties <=>
                  (f \in wop.w1.properties /\ f \in wop.w2.properties)
        /\ \A f \in wop.properties :
              f \in {"LEFT_SEMIRING", "RIGHT_SEMIRING", "COMMUTATIVE", "IDEMPOTENT"}
        /\ (wop.w1.name = "StringLeft" /\ wop.w2.name = "StringRight") =>
              wop.properties = {"IDEMPOTENT"}

\* The product of two semirings that both have PATH and COMMUTATIVE, one of
\* them also IDEMPOTENT: the product has COMMUTATIVE only.
C24_Witness ==
    /\ pc = "product"
    /\ "PATH" \in wop.w1.properties /\ "PATH" \in wop.w2.properties
    /\ "IDEMPOTENT" \in wop.w1.properties /\ "IDEMPOTENT" \notin wop.w2.properties
    /\ wop.properties = {"COMMUTATIVE"}

----------------------------------------------------------------------------
(* Paths iterator (paths_iterator.rs) and decode_linear_fst                *)
(* (fst_to_labels.rs).  A path is a record of its input labels, its output *)
(* labels and its weight.  The iterator is its queue of (state, path);     *)
(* with it are kept the caller ("collect" for a loop over all the paths,   *)
(* "decode" for decode_linear_fst), the number of the call of next() the   *)
(* caller is in, the number of queue entries popped so far, and the paths  *)
(* the caller has received.                                                *)

\* Path::default()
PathDefault == [ilabels |-> <<>>, olabels |-> <<>>, weight |-> One]

\* Path::add_to_path
add_to_path(path, ilabel, olabel, weight) ==
    [ilabels |-> AddLabel(path.ilabels, ilabel),
     olabels |-> AddLabel(path.olabels, olabel),
     weight |-> Times(path.weight, weight)]

\* Path::add_weight
add_weight(path, weight) == [path EXCEPT !.weight = Times(path.weight, weight)]

\* StructPathsIterator::new
StructPathsIteratorNew(f) ==
    IF f.start_state # NoState
    THEN <<[state_id |-> f.start_state, path |-> PathDefault]>>
    ELSE <<>>

\* for arc in arcs_iter(state_id) { ... queue.push_back((arc.nextstate, new_path)) }
RECURSIVE PushArcs(_, _, _, _, _)
PushArcs(f, queue, state_id, path, i) ==
    IF i > NumArcs(f, state_id) THEN queue
    ELSE LET arc == ArcsOf(f, state_id)[i]
             new_path == add_to_path(path, arc.ilabel, arc.olabel, arc.weight)
         IN PushArcs(f, Append(queue, [state_id |-> arc.nextstate, path |-> new_path]),
                     state_id, path, i + 1)

\* One turn of the while loop of next(), up to the test of the final weight:
\* the queue after pop_front and the push_backs
PopAndPush(f, queue) == PushArcs(f, Tail(queue), queue[1].state_id, queue[1].path, 1)

\* Yielded returning the path without the final weight.
YieldedNoFinalWeight(f, queue) == queue[1].path

\* path.add_weight(final_weight); return Some(path)
Yielded(f, queue) == add_weight(queue[1].path, FinalWeight(f, queue[1].state_id))

----------------------------------------------------------------------------
(* Specification of the paths: build an FST, then either loop over         *)
(* paths_iter() or call decode_linear_fst.  Every turn of the while loop   *)
(* of next() is a step.                                                    *)

MaxPathArcs == 3

MaxPops == 8

PathArcKinds == {<<1, 2, 2>>, <<2, 1, 3>>}

PathFinalWeights == {5}

PathAddArc == BuildAddArc(PathArcKinds, MaxPathArcs)

PathSetFinal == BuildSetFinal(PathFinalWeights)

\* for path in fst.paths_iter(): the iterator is made and next() is called
PathsIter ==
    /\ pc = "build"
    /\ it_path' = [queue |-> StructPathsIteratorNew(fst), caller |-> "collect",
                   calls |-> 1, pops |-> 0, yielded |-> <<>>]
    /\ pc' = "next"
    /\ UNCHANGED <<fst, prev, dfs, vis, mapper, res, fst_2, pairs, wop>>

\* decode_linear_fst: let mut it_path = fst.paths_iter(); it_path.next()
DecodeLinearFst ==
    /\ pc = "build"
    /\ it_path' = [queue |-> StructPathsIteratorNew(fst), caller |-> "decode",
                   calls |-> 1, pops |-> 0, yielded |-> <<>>]
    /\ pc' = "next"
    /\ UNCHANGED <<fst, prev, dfs, vis, mapper, res, fst_2, pairs, wop>>

\* A turn of the while loop at a state without final weight: the loop goes on
NextLoop ==
    /\ pc = "next"
    /\ it_path.queue # <<>>
    /\ it_path.pops < MaxPops
    /\ ~IsFinal(fst, it_path.queue[1].state_id)
    /\ it_path' = [it_path EXCEPT !.queue = PopAndPush(fst, it_path.queue),
                                  !.pops = it_path.pops + 1]
    /\ UNCHANGED <<fst, prev, pc, dfs, vis, mapper, res, fst_2, pairs, wop>>

\* A turn of the while loop at a state with a final weight: next() returns
\* Some(path).  The loop over the paths takes it and calls next() again;
\* decode_linear_fst keeps the path of its first call and calls next()
\* again, and bails at a path of its second call.
NextSome ==
    /\ pc = "next"
    /\ it_path.queue # <<>>
    /\ it_path.pops < MaxPops
    /\ IsFinal(fst, it_path.queue[1].state_id)
    /\ LET path == Yielded(fst, it_path.queue)
           it == [it_path EXCEPT !.queue = PopAndPush(fst, it_path.queue),
                                 !.pops = it_path.pops + 1]
       IN IF it_path.caller = "decode" /\ it_path.calls = 2
          THEN /\ it_path' = it
               /\ res' = "err"
               /\ pc' = "decoded"
          ELSE /\ it_path' = [it EXCEPT !.calls = it_path.calls + 1,
                                        !.yielded = Append(it_path.yielded, path)]
               /\ UNCHANGED <<res, pc>>
    /\ UNCHANGED <<fst, prev, dfs, vis, mapper, fst_2, pairs, wop>>

\* The queue is empty: next() returns None.  The loop over the paths ends;
\* decode_linear_fst takes the default path at its first call and calls
\* next() again, and returns Ok(path) at its second call.
NextNone ==
    /\ pc = "next"
    /\ it_path.queue = <<>>
    /\ IF it_path.caller = "collect"
       THEN /\ pc' = "exhausted"
            /\ UNCHANGED <<it_path, res>>
       ELSE IF it_path.calls = 1
       THEN /\ it_path' = [it_path EXCEPT !.calls = 2, !.yielded = <<PathDefault>>]
            /\ UNCHANGED <<res, pc>>
       ELSE /\ res' = "ok"
            /\ pc' = "decoded"
            /\ UNCHANGED it_path
    /\ UNCHANGED <<fst, prev, dfs, vis, mapper, fst_2, pairs, wop>>

NextPaths ==
    \/ BuildAddState
    \/ BuildSetStart
    \/ PathSetFinal
    \/ PathAddArc
    \/ PathsIter
    \/ DecodeLinearFst
    \/ NextLoop
    \/ NextSome
    \/ NextNone

SpecPaths == Init /\ [][NextPaths]_vars

----------------------------------------------------------------------------
(* Claims about the paths *)

\* The bag of <<ilabels, olabels, weight>> of a sequence of paths
RECURSIVE BagOfPaths(_)
BagOfPaths(ps) ==
    IF ps = <<>> THEN EmptyBag
    ELSE SetToBag({<<ps[1].ilabels, ps[1].olabels, ps[1].weight>>}) (+) BagOfPaths(Tail(ps))

\* The number of sequences of at most d arcs that start at state s, the
\* empty sequence included
RECURSIVE ArcSequencesFrom(_, _, _)
RECURSIVE ArcSequencesVia(_, _, _, _)
ArcSequencesFrom(f, s, d) == 1 + (IF d = 0 THEN 0 ELSE ArcSequencesVia(f, s, 1, d))

ArcSequencesVia(f, s, i, d) ==
    IF i > NumArcs(f, s) THEN 0
    ELSE ArcSequencesFrom(f, ArcsOf(f, s)[i].nextstate, d - 1)
            + ArcSequencesVia(f, s, i + 1, d)

ArcSequences(f) ==
    IF f.start_state = NoState THEN 0
    ELSE ArcSequencesFrom(f, f.start_state, NumStates(f))

\* A chain of arcs from the start state whose last state is the only final one
Linear(f) ==
    /\ f.start_state # NoState
    /\ AccessibleAcyclic(f)
    /\ \A s \in Accessible(f) :
          \/ NumArcs(f, s) = 1 /\ ~IsFinal(f, s)
          \/ NumArcs(f, s) = 0 /\ IsFinal(f, s)

\* C25: on an FST whose accessible part is acyclic, a loop over paths_iter
\* pops at most one queue entry per sequence of arcs from the start state
\* and its queue is empty when all are popped, so that it ends; when it has
\* ended, the paths it yielded are, as a bag, the paths of the FST: one per
\* sequence of arcs from the start state to a final state, with the labels
\* in order and the product of the weights of the arcs and the final
\* weight.  A linear FST yields one path, an FST without start state none.
C25_PathsIter ==
    (it_path.caller = "collect" /\ AccessibleAcyclic(fst)) =>
        /\ it_path.pops <= ArcSequences(fst)
        /\ ArcSequences(fst) <= MaxPops
        /\ (pc = "next" /\ it_path.queue # <<>>) => it_path.pops < ArcSequences(fst)
        /\ Len(it_path.yielded) = it_path.calls - 1
        /\ pc = "exhausted" =>
              /\ BagOfPaths(it_path.yielded) = PathsOf(fst)
              /\ it_path.pops = ArcSequences(fst)
              /\ Linear(fst) => Len(it_path.yielded) = 1
              /\ fst.start_state = NoState => it_path.yielded = <<>>

\* A finished loop over the paths of an FST whose start state is final and
\* has arcs: the empty path and three more, one of them of two arcs.
C25_Witness ==
    /\ pc = "exhausted"
    /\ it_path.caller = "collect"
    /\ AccessibleAcyclic(fst)
    /\ fst.start_state # NoState
    /\ IsFinal(fst, fst.start_state)
    /\ Len(it_path.yielded) = 4
    /\ it_path.yielded[1].ilabels = <<>>
    /\ it_path.yielded[1].weight = 5
    /\ \E i \in 2 .. 4 : Len(it_path.yielded[i].ilabels) = 2

\* The paths an FST accepts are infinitely many when a state that is both
\* accessible and coaccessible lies on a cycle
InfinitelyManyPaths(f) == \E s \in Useful(f) : OnCycle(f, s)

\* The number of paths a FST with finitely many paths accepts
NumPaths(f) == BagCardinality(PathsOf(f))

\* next() cannot return from this queue: no queued state reaches a final
\* state, so no turn of the loop returns, and a queued state reaches a
\* cycle, so the queue is never empty
NeverReturns(f, queue) ==
    /\ \A i \in 1 .. Len(queue) :
          \A t \in ReachFrom(f, {queue[i].state_id}) : ~IsFinal(f, t)
    /\ \E i \in 1 .. Len(queue) :
          \E t \in ReachFrom(f, {queue[i].state_id}) : OnCycle(f, t)

\* What decode_linear_fst returns when it returns: the single path of an
\* FST that accepts one path, the default path for an FST that accepts
\* none, an error for an FST that accepts two or more paths.
DecodeResult ==
    (it_path.caller = "decode" /\ pc = "decoded") =>
        IF InfinitelyManyPaths(fst) \/ NumPaths(fst) >= 2 THEN res = "err"
        ELSE /\ res = "ok"
             /\ Len(it_path.yielded) = 1
             /\ IF NumPaths(fst) = 1 THEN BagOfPaths(it_path.yielded) = PathsOf(fst)
                ELSE it_path.yielded[1] = PathDefault

\* C26: decode_linear_fst returns, and it returns the single accepted path
\* when the FST accepts exactly one path, the default path when the FST
\* accepts no path, the path without labels when the FST accepts only the
\* empty path from a final start state, and an error when the FST accepts
\* two or more paths, identical paths over parallel arcs included.
C26_DecodeLinearFst ==
    /\ DecodeResult
    /\ (it_path.caller = "decode" /\ pc = "next") =>
          ~NeverReturns(fst, it_path.queue)

----------------------------------------------------------------------------
(* Specification of the visits: build an FST, then run the DFS engine step *)
(* by step with an SccVisitor or a ConnectVisitor, over the whole FST or   *)
(* (access_only) over the states accessible from the start state.          *)

MaxVisitArcs == 3

VisitAddArc == BuildAddArc(SccArcKinds, MaxVisitArcs)

VisitStart ==
    /\ pc = "build"
    /\ vis' \in {ConnectVisitorNew(fst)}
                 \cup {SccVisitorNew(fst, a, b) : a, b \in BOOLEAN}
    /\ dfs' \in {DfsNew(fst), DfsNewAccessOnly(fst)}
    /\ pc' = "visit"
    /\ UNCHANGED <<fst, prev, mapper, res>>
    /\ UNCHANGED operands

NextVisit ==
    \/ BuildAddState
    \/ BuildSetStart
    \/ SccSetFinal
    \/ VisitAddArc
    \/ VisitStart
    \/ VisitOpenRoot
    \/ VisitTreeArc
    \/ VisitBackArc
    \/ VisitForwardOrCrossArc
    \/ VisitFinishState
    \/ VisitFinishVisit

SpecVisit == Init /\ [][NextVisit]_vars

----------------------------------------------------------------------------
(* Claims about the numbering of the components and the run of arc_map *)

\* The component of s has no arc to another component
NoOutgoing(f, s) ==
    \A u \in SccOf(f, s), t \in StateIds(f) : HasArc(f, u, t) => t \in SccOf(f, s)

\* The component of s has no arc from another component
NoIncoming(f, s) ==
    \A u \in SccOf(f, s), t \in StateIds(f) : HasArc(f, t, u) => t \in SccOf(f, s)

\* C27 as stated: after finish_visit has reversed the SCC ids, the component
\* numbered 0 is one with no arc to another component.
C27_SinkNumberedZero ==
    (pc = "done" /\ vis.scc_some /\ NumStates(fst) > 0) =>
        \E s \in StateIds(fst) : vis.scc[s] = 0 /\ NoOutgoing(fst, s)

\* C27 amended: after finish_visit has reversed the SCC ids, the component
\* numbered nscc - 1 is one with no arc to another component, and the
\* component numbered 0 is one with no arc from another component.
C27_SinkNumberedLast ==
    (pc = "done" /\ vis.scc_some /\ NumStates(fst) > 0) =>
        /\ \E s \in StateIds(fst) : vis.scc[s] = vis.nscc - 1
        /\ \E s \in StateIds(fst) : vis.scc[s] = 0
        /\ \A s \in StateIds(fst) : vis.scc[s] = vis.nscc - 1 => NoOutgoing(fst, s)
        /\ \A s \in StateIds(fst) : vis.scc[s] = 0 => NoIncoming(fst, s)

\* A finished visit of three components in a chain: the one numbered 0 has
\* an arc to the next, the one numbered 2 has none and is entered by an arc.
C27_Witness ==
    /\ pc = "done"
    /\ vis.scc_some
    /\ vis.nscc = 3
    /\ \E s, t, u \in StateIds(fst) :
          /\ vis.scc[s] = 0 /\ vis.scc[t] = 1 /\ vis.scc[u] = 2
          /\ HasArc(fst, s, t) /\ HasArc(fst, t, u)
          /\ ~NoOutgoing(fst, s)
          /\ NoOutgoing(fst, u)

\* C28: in a successful run of arc_map on an FST with a start state, whatever
\* the final action, the superfinal state is not among the states visited:
\* final_arc_map is called once per final state of the input FST and not
\* on the final weight one of the superfinal state.
C28_SuperfinalNeverVisited ==
    (Mapped /\ res = "ok" /\ prev.start_state # NoState) =>
        mapper.final_calls = Cardinality(FinalStates(prev))

\* The arcs of a state of an input of union, their targets moved by offset
ShiftedArcs(arcs, offset) ==
    [i \in 1 .. Len(arcs) |-> [arcs[i] EXCEPT !.nextstate = arcs[i].nextstate + offset]]

\* The epsilon arc from the new start state to the copy of the start state
\* of an input, when it has one
StartArc(f, offset) ==
    IF f.start_state = NoState THEN <<>>
    ELSE <<Arc(EPS_LABEL, EPS_LABEL, One, f.start_state + offset)>>

\* C29: union(A, B) has 1 + |A| + |B| states; its start state is the new
\* state 0, which is not final and has the arc (EPS_LABEL, EPS_LABEL, one)
\* to the copy of the start state of A when A has one, then the like arc for
\* B, and no other arc; the state 1 + s is the copy of the state s of A and
\* the state 1 + |A| + s the copy of the state s of B, with the same final
\* weight and the same arcs in the same order, their targets moved into the
\* same copy; no arc leads from one copy to the other.
C29_UnionStructure ==
    United =>
        LET na == NumStates(prev)
            nb == NumStates(fst_2)
        IN /\ NumStates(fst) = 1 + na + nb
           /\ fst.start_state = 0
           /\ ~IsFinal(fst, 0)
           /\ ArcsOf(fst, 0) = StartArc(prev, 1) \o StartArc(fst_2, 1 + na)
           /\ \A s \in StateIds(prev) :
                 /\ FinalWeight(fst, 1 + s) = FinalWeight(prev, s)
                 /\ ArcsOf(fst, 1 + s) = ShiftedArcs(ArcsOf(prev, s), 1)
                 /\ Successors(fst, 1 + s) \subseteq 1 .. na
           /\ \A s \in StateIds(fst_2) :
                 /\ FinalWeight(fst, 1 + na + s) = FinalWeight(fst_2, s)
                 /\ ArcsOf(fst, 1 + na + s) = ShiftedArcs(ArcsOf(fst_2, s), 1 + na)
                 /\ Successors(fst, 1 + na + s) \subseteq (1 + na) .. (na + nb)

\* A union of two FSTs with start state, arcs and final states: the first
\* with two states and a start state other than 0, the second with an arc.
C29_Witness ==
    /\ United
    /\ NumStates(prev) = 2 /\ NumStates(fst_2) >= 1
    /\ prev.start_state = 1
    /\ fst_2.start_state # NoState
    /\ Len(ArcsOf(fst, 0)) = 2
    /\ ArcsOf(fst, 0)[1].nextstate = 2
    /\ \E s \in StateIds(prev) : NumArcs(prev, s) = 2 /\ IsFinal(prev, s)
    /\ \E s \in StateIds(fst_2) : NumArcs(fst_2, s) = 1 /\ IsFinal(fst_2, s)

----------------------------------------------------------------------------
(* Claims about the stack of the visitors *)

InSccStack(v, s) == \E i \in 1..Len(v.scc_stack) : v.scc_stack[i] = s

Discovered(f, d) == {s \in StateIds(f) : d.color[s] # "white"}

\* C30: in any visit with an SccVisitor or a ConnectVisitor, a discovered
\* state has lowlink <= dfnumber; when finish_state of s finds dfnumber =
\* lowlink, s is on scc_stack, so the scan never goes below index 0 and the
\* pop never meets an empty stack; every state is pushed once (nstates counts
\* the pushes, the stack holds no state twice and only discovered states,
\* onstack says which) and popped once; after the complete visit scc_stack
\* is empty and onstack is false for every state.
C30_SccStackDiscipline ==
    pc \in {"visit", "done"} =>
        /\ ~vis.panicked
        /\ \A s \in Discovered(fst, dfs) :
               /\ vis.dfnumber[s] >= 0
               /\ vis.lowlink[s] <= vis.dfnumber[s]
        /\ DfsNextKind(fst, dfs) = "finish" =>
               LET s == dfs.stack[Len(dfs.stack)].s
               IN vis.dfnumber[s] = vis.lowlink[s] =>
                      InSccStack(vis, s) /\ vis.onstack[s]
        /\ vis.nstates = Cardinality(Discovered(fst, dfs))
        /\ \A i, j \in 1..Len(vis.scc_stack) :
               vis.scc_stack[i] = vis.scc_stack[j] => i = j
        /\ \A s \in StateIds(fst) :
               /\ vis.onstack[s] <=> InSccStack(vis, s)
               /\ vis.onstack[s] => s \in Discovered(fst, dfs)
               /\ dfs.color[s] = "grey" => vis.onstack[s]
        /\ pc = "done" =>
               /\ vis.scc_stack = <<>>
               /\ \A s \in StateIds(fst) : ~vis.onstack[s]
               /\ \A s \in Discovered(fst, dfs) : dfs.color[s] = "black"

\* A finished visit of a ConnectVisitor over three states, all discovered,
\* where a component of two states was popped in one scan and an arc leads
\* from a later root into a state popped before.
C30_Witness ==
    /\ pc = "done"
    /\ vis.kind = "connect"
    /\ ~AccessOnly(dfs)
    /\ NumStates(fst) = 3
    /\ vis.nstates = 3
    /\ \E s, t \in StateIds(fst) :
           /\ s # t
           /\ \E i \in 1..NumArcs(fst, s) : ArcsOf(fst, s)[i].nextstate = t
           /\ \E i \in 1..NumArcs(fst, t) : ArcsOf(fst, t)[i].nextstate = s
    /\ \E s, t \in StateIds(fst) :
           /\ vis.dfnumber[t] < vis.dfnumber[s]
           /\ ~vis.access[s]
           /\ vis.access[t]
           /\ \E i \in 1..NumArcs(fst, s) : ArcsOf(fst, s)[i].nextstate = t

====
